---- MODULE Spec2Model ----
(***************************************************************************)
(* Model of the tc-memory-server knowledge store (db.ts and its callers):  *)
(* the table tc_memory.knowledge, the SERIAL id sequence, the clock, and   *)
(* the requests that run SQL statements against the table one statement at *)
(* a time.  Every pool.query / client.query of the source is one atomic    *)
(* step of the request that issues it; mergeKnowledge runs its statements   *)
(* inside one READ COMMITTED transaction whose writes become visible at     *)
(* COMMIT.                                                                  *)
(***************************************************************************)
EXTENDS Integers, Sequences, FiniteSets, Bags, TLC

VARIABLES
    knowledge,  \* committed rows of tc_memory.knowledge (a set of records)
    serial,     \* last value handed out by the SERIAL sequence of column id
    now,        \* NOW(), in ticks of DaysPerTick days
    pc,         \* pc[p]: the statement request p is about to run
    call,       \* call[p]: the operation request p runs and its arguments
    loc,        \* loc[p]: the local variables of request p
    ret,        \* ret[p]: what the last finished operation of p returned
    access      \* recordAccess calls started by searches and not yet run

vars == <<knowledge, serial, now, pc, call, loc, ret, access>>

(***************************************************************************)
(* Bounds of the model.                                                    *)
(***************************************************************************)
MaxId == 2          \* rows ever inserted (values of the id sequence)
SeqMaxId == 3       \* the same, where requests run one after the other
MaxNow == 1         \* ticks the clock advances
SweepMaxNow == 2    \* the same, where the pruning sweep is examined
MaxAccess == 1      \* access_count up to which searches still record access
MaxPending == 1     \* recordAccess calls started and not yet run
ClassifyMaxId == 1  \* rows ever inserted, where the classifier is examined
ScoreMaxNow == 3    \* ticks the clock advances, where the scorer is examined

DaysPerTick == 200  \* days of one clock tick

\* REAL values (confidence, scores) are fixed-point numbers: Scale is 1.0
Scale == 10000

Procs == {"p1", "p2"}

(***************************************************************************)
(* Values of the columns.                                                  *)
(***************************************************************************)
Topics == {"pricing"}
Sources == {"website", "stripe"}
Contents == {"alpha", "beta"}
MemoryTypes == {"core", "architecture", "pattern", "decision"}
NULL == "NULL"    \* an omitted (undefined) argument
NullTime == -1    \* the SQL NULL of the nullable column last_accessed

\* What a save request carries besides the natural key: tags, confidence,
\* userId and the optional memoryType (NULL: omitted).  SaveDefaults is what
\* saveKnowledgeTool passes for the omitted arguments.
Meta(tags, confidence, userId, memoryType) ==
    [tags |-> tags, confidence |-> confidence, userId |-> userId,
     memoryType |-> memoryType]
SaveDefaults == Meta({}, Scale, "unknown", NULL)

Max(a, b) == IF a >= b THEN a ELSE b
Min(a, b) == IF a <= b THEN a ELSE b

(***************************************************************************)
(* Strings: the JavaScript and SQL string primitives the source uses.      *)
(***************************************************************************)
UpperCaseLetters == "ABCDEFGHIJKLMNOPQRSTUVWXYZ"
LowerCaseLetters == "abcdefghijklmnopqrstuvwxyz"

CharAt(s, i) == SubSeq(s, i, i)

LowerChar(c) ==
    IF \E i \in 1..Len(UpperCaseLetters) : CharAt(UpperCaseLetters, i) = c
    THEN CharAt(LowerCaseLetters,
                CHOOSE i \in 1..Len(UpperCaseLetters) : CharAt(UpperCaseLetters, i) = c)
    ELSE c

\* String.prototype.toLowerCase
RECURSIVE toLowerCase(_)
toLowerCase(s) ==
    IF Len(s) = 0 THEN ""
    ELSE LowerChar(CharAt(s, 1)) \o toLowerCase(SubSeq(s, 2, Len(s)))

\* String.prototype.includes
includes(s, sub) ==
    \E i \in 1..(Len(s) - Len(sub) + 1) : SubSeq(s, i, i + Len(sub) - 1) = sub

(***************************************************************************)
(* classifyMemoryType(topic, tags)                                         *)
(***************************************************************************)
CoreTopicKeywords ==
    {"agent-rules", "sheet-ids", "api-key", "credentials", "deployment-id"}
ArchitectureTopicKeywords ==
    {"cms-api", "gas-webhook", "pricing", "stripe-api", "infrastructure",
     "architecture", "invoice-pdf"}

\* Faulty variant of classifyMemoryType: the architecture rule is tried before
\* the core rule.
classifyArchitectureFirst(topic, tags) ==
    LET t == toLowerCase(topic)
        allTags == {toLowerCase(tag) : tag \in tags}
    IN  IF (\E k \in ArchitectureTopicKeywords : includes(t, k))
           \/ "architecture" \in allTags
        THEN "architecture"
        ELSE IF (\E k \in CoreTopicKeywords : includes(t, k)) \/ "core" \in allTags
        THEN "core"
        ELSE IF "decision" \in allTags \/ includes(t, "decision")
        THEN "decision"
        ELSE "pattern"

classifyMemoryType(topic, tags) ==
    LET t == toLowerCase(topic)
        allTags == {toLowerCase(tag) : tag \in tags}
    IN  IF (\E k \in CoreTopicKeywords : includes(t, k)) \/ "core" \in allTags
        THEN "core"
        ELSE IF (\E k \in ArchitectureTopicKeywords : includes(t, k))
                \/ "architecture" \in allTags
        THEN "architecture"
        ELSE IF "decision" \in allTags \/ includes(t, "decision")
        THEN "decision"
        ELSE "pattern"

(***************************************************************************)
(* tc_memory.retention_score, in fixed-point arithmetic (Scale = 1.0).     *)
(* EXP and LN are computed by their series; time differences are whole     *)
(* ticks of DaysPerTick days.                                              *)
(***************************************************************************)
\* sum_{n>=k} (-x)^n / n! from the term of index k, x = xm/1000 <= 1/2
RECURSIVE ExpSeries(_, _, _)
ExpSeries(xm, k, term) ==
    IF term = 0 \/ k > 12 THEN 0
    ELSE LET next == (term * xm) \div (1000 * k)
         IN  (IF k % 2 = 1 THEN 0 - next ELSE next) + ExpSeries(xm, k + 1, next)

\* EXP(-x) for x = xm/1000 >= 0: halve the argument until the series is short
RECURSIVE ExpNeg(_)
ExpNeg(xm) ==
    IF xm > 500
    THEN LET h == ExpNeg(xm \div 2) IN (h * h) \div Scale
    ELSE Scale + ExpSeries(xm, 1, Scale)

\* 2 * sum_{j>=0} y^(2j+1) / (2j+1) for y = num/den, the series of LN((1+y)/(1-y))
RECURSIVE AtanhSeries(_, _, _, _)
AtanhSeries(num, den, j, power) ==
    IF power = 0 \/ j > 12 THEN 0
    ELSE (2 * power) \div (2 * j + 1)
         + AtanhSeries(num, den, j + 1, (power * num * num) \div (den * den))

\* LN(2) = LN((1 + 1/3) / (1 - 1/3))
Ln2 == AtanhSeries(1, 3, 0, Scale \div 3)

\* LN(n) for an integer n >= 1: n = m * 2^e with 1 <= m < 2, LN(m) by the series
\* with y = (m - 1) / (m + 1) = (n - 2^e) / (n + 2^e)
RECURSIVE Log2Floor(_)
Log2Floor(n) == IF n < 2 THEN 0 ELSE 1 + Log2Floor(n \div 2)

RECURSIVE Pow2(_)
Pow2(e) == IF e = 0 THEN 1 ELSE 2 * Pow2(e - 1)

Ln(n) ==
    LET e == Log2Floor(n)
        num == n - Pow2(e)
        den == n + Pow2(e)
    IN  e * Ln2 + AtanhSeries(num, den, 0, (Scale * num) \div den)

DecayRate(memory_type) ==  \* per day, in thousandths
    CASE memory_type = "architecture" -> 1
      [] memory_type = "pattern" -> 5
      [] memory_type = "decision" -> 10
      [] OTHER -> 5

\* Faulty variant of retention_score: the core rule is tried before the
\* protected rule.
retention_score_core_first(p_confidence, p_access_count, p_last_accessed, p_memory_type, p_tags, p_created_at) ==
    IF p_memory_type = "core" THEN Max(p_confidence, (9 * Scale) \div 10)
    ELSE IF "protected" \in p_tags THEN Scale
    ELSE
      LET decay_rate == DecayRate(p_memory_type)
          days_since_access ==
              (now - (IF p_last_accessed = NullTime THEN p_created_at
                      ELSE p_last_accessed)) * DaysPerTick
          days_since_created == (now - p_created_at) * DaysPerTick
          importance ==
              (p_confidence * ExpNeg(decay_rate * days_since_created)) \div Scale
          access_freq == Min((Ln(p_access_count + 1) * Scale) \div Ln(50), Scale)
          recency == Max(Scale - (days_since_access * Scale) \div 180, 0)
          score == (importance * 4 + access_freq * 3 + recency * 3) \div 10
      IN  Max(Min(score, Scale), 0)

\* Faulty variant of retention_score: a core entry scores its confidence,
\* without the floor of 0.9.
retention_score_core_unfloored(p_confidence, p_access_count, p_last_accessed, p_memory_type, p_tags, p_created_at) ==
    IF "protected" \in p_tags THEN Scale
    ELSE IF p_memory_type = "core" THEN p_confidence
    ELSE
      LET decay_rate == DecayRate(p_memory_type)
          days_since_access ==
              (now - (IF p_last_accessed = NullTime THEN p_created_at
                      ELSE p_last_accessed)) * DaysPerTick
          days_since_created == (now - p_created_at) * DaysPerTick
          importance ==
              (p_confidence * ExpNeg(decay_rate * days_since_created)) \div Scale
          access_freq == Min((Ln(p_access_count + 1) * Scale) \div Ln(50), Scale)
          recency == Max(Scale - (days_since_access * Scale) \div 180, 0)
          score == (importance * 4 + access_freq * 3 + recency * 3) \div 10
      IN  Max(Min(score, Scale), 0)

\* Faulty variant of retention_score: neither the access frequency nor the
\* weighted sum is clamped.
retention_score_unclamped(p_confidence, p_access_count, p_last_accessed, p_memory_type, p_tags, p_created_at) ==
    IF "protected" \in p_tags THEN Scale
    ELSE IF p_memory_type = "core" THEN Max(p_confidence, (9 * Scale) \div 10)
    ELSE
      LET decay_rate == DecayRate(p_memory_type)
          days_since_access ==
              (now - (IF p_last_accessed = NullTime THEN p_created_at
                      ELSE p_last_accessed)) * DaysPerTick
          days_since_created == (now - p_created_at) * DaysPerTick
          importance ==
              (p_confidence * ExpNeg(decay_rate * days_since_created)) \div Scale
          access_freq == (Ln(p_access_count + 1) * Scale) \div Ln(50)
          recency == Max(Scale - (days_since_access * Scale) \div 180, 0)
          score == (importance * 4 + access_freq * 3 + recency * 3) \div 10
      IN  score

retention_score(p_confidence, p_access_count, p_last_accessed, p_memory_type, p_tags, p_created_at) ==
    IF "protected" \in p_tags THEN Scale
    ELSE IF p_memory_type = "core" THEN Max(p_confidence, (9 * Scale) \div 10)
    ELSE
      LET decay_rate == DecayRate(p_memory_type)
          days_since_access ==
              (now - (IF p_last_accessed = NullTime THEN p_created_at
                      ELSE p_last_accessed)) * DaysPerTick
          days_since_created == (now - p_created_at) * DaysPerTick
          importance ==
              (p_confidence * ExpNeg(decay_rate * days_since_created)) \div Scale
          access_freq == Min((Ln(p_access_count + 1) * Scale) \div Ln(50), Scale)
          recency == Max(Scale - (days_since_access * Scale) \div 180, 0)
          score == (importance * 4 + access_freq * 3 + recency * 3) \div 10
      IN  Max(Min(score, Scale), 0)

RowScore(r) ==
    retention_score(r.confidence, r.access_count, r.last_accessed,
                    r.memory_type, r.tags, r.created_at)


(***************************************************************************)
(* Rows, requests and the transaction of a merge.                          *)
(*                                                                         *)
(* The actions that start a request take a scope D: the sets its arguments *)
(* are drawn from (D.sources, D.contents, D.metas, ...), the ids the       *)
(* sequence may hand out (D.maxId) and the ticks of the clock (D.maxNow).  *)
(***************************************************************************)
NoCall == [op |-> "none"]
NoLoc == [op |-> "none"]
NoRet == [kind |-> "none"]
\* the operation threw, at the statement of the given position
ErrorRet(at) == [kind |-> "error", at |-> at]
IdRet(id) == [kind |-> "id", id |-> id]
BoolRet(b) == [kind |-> "bool", ok |-> b]

Free(p) == pc[p] \in {"idle", "done"}

\* rows of a set K that carry the id (WHERE id = $1, WHERE id = ANY($1))
WhereId(K, id) == {r \in K : r.id = id}
WhereIdAny(K, ids) == {r \in K : r.id \in ids}

\* SELECT ... LIMIT 1 without ORDER BY: any one of the matching rows, or none
Limit1(rows) == IF rows = {} THEN {{}} ELSE {{r} : r \in rows}

\* The uncommitted writes of the merge transaction of request p: the ids of the
\* rows it has updated or deleted (it holds their row locks until it ends) and
\* its own versions of those rows (a deleted row has none).
NoTx == [locked |-> {}, rows |-> {}]
TxOf(p) == IF call[p].op = "merge" /\ ~Free(p) THEN loc[p].tx ELSE NoTx

\* a row lock held by a transaction other than that of p
LockedByOther(p, ids) ==
    \E q \in Procs \ {p} : TxOf(q).locked \cap ids # {}

\* what the statements of a transaction see: the committed rows, with the rows
\* it wrote itself in its own version
TxView(tx) == {r \in knowledge : r.id \notin tx.locked} \cup tx.rows

(***************************************************************************)
(* saveKnowledge                                                           *)
(***************************************************************************)
\* SELECT id FROM knowledge WHERE topic = $1 AND source = $2 AND content = $3
SaveMatches(K, topic, source, content) ==
    {r \in K : r.topic = topic /\ r.source = source /\ r.content = content}

\* Faulty variant of SaveUpdateRow: the UPDATE leaves memory_type as it is.
SaveUpdateRowKeepType(r, c, resolvedType) ==
    [r EXCEPT !.content = c.content, !.tags = c.tags,
              !.confidence = c.confidence, !.user_id = c.userId,
              !.updated_at = now]

\* UPDATE knowledge SET content, tags, confidence, user_id, memory_type,
\*   updated_at = NOW() WHERE id = $6
SaveUpdateRow(r, c, resolvedType) ==
    [r EXCEPT !.content = c.content, !.tags = c.tags,
              !.confidence = c.confidence, !.user_id = c.userId,
              !.memory_type = resolvedType, !.updated_at = now]

\* INSERT INTO knowledge (topic, content, source, tags, confidence, user_id,
\*   memory_type) VALUES (...) RETURNING id; the other columns take their defaults
SaveInsertRow(id, c, resolvedType) ==
    [id |-> id, topic |-> c.topic, content |-> c.content, source |-> c.source,
     user_id |-> c.userId, tags |-> c.tags, confidence |-> c.confidence,
     access_count |-> 0, last_accessed |-> NullTime,
     memory_type |-> resolvedType, created_at |-> now, updated_at |-> now]

\* const resolvedType = memoryType ?? classifyMemoryType(topic, tags)
ResolvedType(c) ==
    IF c.memoryType # NULL THEN c.memoryType
    ELSE classifyMemoryType(c.topic, c.tags)

\* CONSTRAINT chk_memory_type CHECK (memory_type IN ('core', ...)): a statement
\* that would store another memory_type fails
chk_memory_type(memoryType) == memoryType \in MemoryTypes

\* the request arrives and runs the duplicate check
SaveSelect(p, D) ==
    /\ Free(p)
    /\ \E topic \in D.topics, content \in D.contents, source \in D.sources,
          meta \in D.metas :
          LET matches == SaveMatches(knowledge, topic, source, content) IN
          /\ matches # {} \/ serial < D.maxId
          /\ \E existing \in Limit1(matches) :
               /\ call' = [call EXCEPT ![p] =
                     [op |-> "save", topic |-> topic, content |-> content,
                      source |-> source, tags |-> meta.tags,
                      confidence |-> meta.confidence, userId |-> meta.userId,
                      memoryType |-> meta.memoryType]]
               /\ loc' = [loc EXCEPT ![p] =
                     [existing |-> {r.id : r \in existing}]]
               /\ pc' = [pc EXCEPT ![p] =
                     IF existing # {} THEN "save_update" ELSE "save_insert"]
    /\ ret' = [ret EXCEPT ![p] = NoRet]
    /\ UNCHANGED <<knowledge, serial, now, access>>

SaveUpdate(p) ==
    /\ pc[p] = "save_update"
    /\ ~LockedByOther(p, loc[p].existing)
    /\ chk_memory_type(ResolvedType(call[p]))
    /\ knowledge' =
          {IF r.id \in loc[p].existing
           THEN SaveUpdateRow(r, call[p], ResolvedType(call[p]))
           ELSE r : r \in knowledge}
    /\ \E id \in loc[p].existing : ret' = [ret EXCEPT ![p] = IdRet(id)]
    /\ pc' = [pc EXCEPT ![p] = "done"]
    /\ loc' = [loc EXCEPT ![p] = NoLoc]
    /\ UNCHANGED <<serial, now, call, access>>

\* Faulty variant of SaveInsert: the id is the number of rows plus one, not the
\* next value of the sequence.
SaveInsertCounting(p, D) ==
    /\ pc[p] = "save_insert"
    /\ serial < D.maxId
    /\ chk_memory_type(ResolvedType(call[p]))
    /\ serial' = serial + 1
    /\ knowledge' = knowledge \cup
          {SaveInsertRow(Cardinality(knowledge) + 1, call[p],
                         ResolvedType(call[p]))}
    /\ ret' = [ret EXCEPT ![p] = IdRet(Cardinality(knowledge) + 1)]
    /\ pc' = [pc EXCEPT ![p] = "done"]
    /\ loc' = [loc EXCEPT ![p] = NoLoc]
    /\ UNCHANGED <<now, call, access>>

SaveInsert(p, D) ==
    /\ pc[p] = "save_insert"
    /\ serial < D.maxId
    /\ chk_memory_type(ResolvedType(call[p]))
    /\ serial' = serial + 1
    /\ knowledge' = knowledge \cup
          {SaveInsertRow(serial + 1, call[p], ResolvedType(call[p]))}
    /\ ret' = [ret EXCEPT ![p] = IdRet(serial + 1)]
    /\ pc' = [pc EXCEPT ![p] = "done"]
    /\ loc' = [loc EXCEPT ![p] = NoLoc]
    /\ UNCHANGED <<now, call, access>>

(***************************************************************************)
(* The entry points of a save: the save_knowledge tool, whose input schema *)
(* is parsed before its handler runs, and the route POST /api/save.        *)
(***************************************************************************)
VALID_SOURCES ==
    {"website", "godot-pay", "godot-tablet", "godot-mgmt", "gas", "devops",
     "stripe", "infrastructure", "unknown"}

MaxTopicLength == 100     \* z.string().min(1).max(100)
MaxContentLength == 2000  \* z.string().min(1).max(2000)
MaxTags == 10             \* z.array(z.string()).max(10)

\* the input schema of save_knowledge, field by field
ToolAcceptsTopic(topic) == Len(topic) >= 1 /\ Len(topic) <= MaxTopicLength
ToolAcceptsContent(content) == Len(content) >= 1 /\ Len(content) <= MaxContentLength
ToolAcceptsSource(source) == source \in VALID_SOURCES
ToolAcceptsMeta(meta) ==
    /\ Cardinality(meta.tags) <= MaxTags
    /\ meta.confidence >= 0 /\ meta.confidence <= Scale
    /\ meta.memoryType \in MemoryTypes \cup {NULL}

\* what a rejected request answers
RejectedRet(status) == [kind |-> "rejected", status |-> status]

\* a request that is answered without a statement being run
Reject(p, status, topic, content, source, meta) ==
    /\ call' = [call EXCEPT ![p] =
          [op |-> "save", topic |-> topic, content |-> content,
           source |-> source, tags |-> meta.tags,
           confidence |-> meta.confidence, userId |-> meta.userId,
           memoryType |-> meta.memoryType]]
    /\ ret' = [ret EXCEPT ![p] = RejectedRet(status)]
    /\ pc' = [pc EXCEPT ![p] = "done"]
    /\ loc' = [loc EXCEPT ![p] = NoLoc]
    /\ UNCHANGED <<knowledge, serial, now, access>>

\* save_knowledge: an input the schema rejects never reaches the handler; the
\* handler calls saveKnowledge with the input as it is
SaveKnowledgeTool(p, D) ==
    \/ /\ Free(p)
       /\ \E topic \in D.topics, content \in D.contents, source \in D.sources,
             meta \in D.metas :
             /\ ~(/\ ToolAcceptsTopic(topic) /\ ToolAcceptsContent(content)
                  /\ ToolAcceptsSource(source) /\ ToolAcceptsMeta(meta))
             /\ Reject(p, "invalid", topic, content, source, meta)
    \/ SaveSelect(p, [D EXCEPT
          !.topics = {t \in D.topics : ToolAcceptsTopic(t)},
          !.contents = {c \in D.contents : ToolAcceptsContent(c)},
          !.sources = {s \in D.sources : ToolAcceptsSource(s)},
          !.metas = {m \in D.metas : ToolAcceptsMeta(m)}])

\* POST /api/save: if (!topic || !content || !source) the answer is 400;
\* otherwise saveKnowledge is called with the body as it is
ApiSave(p, D) ==
    \/ /\ Free(p)
       /\ \E topic \in D.topics, content \in D.contents, source \in D.sources,
             meta \in D.metas :
             /\ topic = "" \/ content = "" \/ source = ""
             /\ Reject(p, "400", topic, content, source, meta)
    \/ SaveSelect(p, [D EXCEPT
          !.topics = D.topics \ {""},
          !.contents = D.contents \ {""},
          !.sources = D.sources \ {""}])

(***************************************************************************)
(* deleteKnowledge                                                         *)
(***************************************************************************)
\* DELETE FROM knowledge WHERE id = $1; returns rowCount > 0
DeleteKnowledge(p, D) ==
    /\ Free(p)
    /\ \E id \in 1..D.maxId :
         /\ ~LockedByOther(p, {id})
         /\ knowledge' = knowledge \ WhereId(knowledge, id)
         /\ call' = [call EXCEPT ![p] = [op |-> "delete", id |-> id]]
         /\ ret' = [ret EXCEPT ![p] = BoolRet(WhereId(knowledge, id) # {})]
    /\ pc' = [pc EXCEPT ![p] = "done"]
    /\ loc' = [loc EXCEPT ![p] = NoLoc]
    /\ UNCHANGED <<serial, now, access>>

(***************************************************************************)
(* mergeKnowledge: BEGIN, two SELECTs, UPDATE, DELETE, COMMIT on one client *)
(***************************************************************************)
\* BEGIN; SELECT * FROM knowledge WHERE id = $1 (keepId)
MergeSelectKeep(p, D) ==
    /\ Free(p)
    /\ \E keepId \in 1..D.maxId, deleteId \in 1..D.maxId,
          mergedContent \in D.mergedContents :
         /\ call' = [call EXCEPT ![p] =
               [op |-> "merge", keepId |-> keepId, deleteId |-> deleteId,
                mergedContent |-> mergedContent]]
         /\ loc' = [loc EXCEPT ![p] =
               [keep |-> WhereId(knowledge, keepId), del |-> {}, tx |-> NoTx]]
    /\ pc' = [pc EXCEPT ![p] = "merge_select_del"]
    /\ ret' = [ret EXCEPT ![p] = NoRet]
    /\ UNCHANGED <<knowledge, serial, now, access>>

\* SELECT * FROM knowledge WHERE id = $1 (deleteId), then the check of both
MergeSelectDel(p) ==
    /\ pc[p] = "merge_select_del"
    /\ LET del == WhereId(knowledge, call[p].deleteId) IN
         /\ loc' = [loc EXCEPT ![p].del = del]
         /\ pc' = [pc EXCEPT ![p] =
               IF loc[p].keep = {} \/ del = {} THEN "merge_rollback"
               ELSE "merge_update"]
    /\ UNCHANGED <<knowledge, serial, now, call, ret, access>>

\* Faulty variant of MergeRollback: the row of deleteId, if there is one, is
\* removed although the merge is given up.
MergeRollbackPartial(p) ==
    /\ pc[p] = "merge_rollback"
    /\ knowledge' = knowledge \ WhereId(knowledge, call[p].deleteId)
    /\ pc' = [pc EXCEPT ![p] = "done"]
    /\ ret' = [ret EXCEPT ![p] = BoolRet(FALSE)]
    /\ loc' = [loc EXCEPT ![p] = NoLoc]
    /\ UNCHANGED <<serial, now, call, access>>

\* if (keepRow.rows.length === 0 || deleteRow.rows.length === 0): ROLLBACK
MergeRollback(p) ==
    /\ pc[p] = "merge_rollback"
    /\ pc' = [pc EXCEPT ![p] = "done"]
    /\ ret' = [ret EXCEPT ![p] = BoolRet(FALSE)]
    /\ loc' = [loc EXCEPT ![p] = NoLoc]
    /\ UNCHANGED <<knowledge, serial, now, call, access>>

\* Faulty variant of MergeCombined: the tags of the deleted row are dropped.
MergeCombinedKeepTags(keep, del, mergedContent) ==
    [content |-> IF mergedContent # NULL THEN mergedContent ELSE keep.content,
     tags |-> keep.tags,
     access_count |-> keep.access_count + del.access_count,
     confidence |-> Max(keep.confidence, del.confidence)]

\* the values mergeKnowledge computes from the two rows it read
MergeCombined(keep, del, mergedContent) ==
    [content |-> IF mergedContent # NULL THEN mergedContent ELSE keep.content,
     tags |-> keep.tags \cup del.tags,
     access_count |-> keep.access_count + del.access_count,
     confidence |-> Max(keep.confidence, del.confidence)]

\* Faulty variant of MergeUpdateRow: the memory type is classified again from
\* the combined tags.
MergeUpdateRowReclassify(r, v) ==
    [r EXCEPT !.content = v.content, !.tags = v.tags,
              !.access_count = v.access_count, !.confidence = v.confidence,
              !.memory_type = classifyMemoryType(r.topic, v.tags),
              !.updated_at = now]

\* UPDATE knowledge SET content, tags, access_count, confidence,
\*   updated_at = NOW() WHERE id = $5
MergeUpdateRow(r, v) ==
    [r EXCEPT !.content = v.content, !.tags = v.tags,
              !.access_count = v.access_count, !.confidence = v.confidence,
              !.updated_at = now]

\* Faulty variant of MergeUpdate: the UPDATE runs outside the transaction and is
\* committed at once.
MergeUpdateAutocommit(p) ==
    /\ pc[p] = "merge_update"
    /\ LET keep == CHOOSE r \in loc[p].keep : TRUE
           del == CHOOSE r \in loc[p].del : TRUE
           v == MergeCombined(keep, del, call[p].mergedContent)
       IN  /\ ~LockedByOther(p, {call[p].keepId})
           /\ knowledge' =
                 {IF r.id = call[p].keepId THEN MergeUpdateRow(r, v) ELSE r :
                     r \in knowledge}
    /\ pc' = [pc EXCEPT ![p] = "merge_delete"]
    /\ UNCHANGED <<serial, now, call, loc, ret, access>>

MergeUpdate(p) ==
    /\ pc[p] = "merge_update"
    /\ LET tx == loc[p].tx
           targets == WhereId(TxView(tx), call[p].keepId)
           keep == CHOOSE r \in loc[p].keep : TRUE
           del == CHOOSE r \in loc[p].del : TRUE
           v == MergeCombined(keep, del, call[p].mergedContent)
       IN  /\ ~LockedByOther(p, {r.id : r \in targets})
           /\ loc' = [loc EXCEPT ![p].tx =
                 [locked |-> tx.locked \cup {r.id : r \in targets},
                  rows |-> (tx.rows \ targets)
                           \cup {MergeUpdateRow(r, v) : r \in targets}]]
    /\ pc' = [pc EXCEPT ![p] = "merge_delete"]
    /\ UNCHANGED <<knowledge, serial, now, call, ret, access>>

\* Faulty variant of MergeDelete: the DELETE takes the row of keepId as well.
MergeDeleteBoth(p) ==
    /\ pc[p] = "merge_delete"
    /\ LET tx == loc[p].tx
           targets == WhereIdAny(TxView(tx), {call[p].keepId, call[p].deleteId})
       IN  /\ ~LockedByOther(p, {r.id : r \in targets})
           /\ loc' = [loc EXCEPT ![p].tx =
                 [locked |-> tx.locked \cup {r.id : r \in targets},
                  rows |-> tx.rows \ targets]]
    /\ pc' = [pc EXCEPT ![p] = "merge_commit"]
    /\ UNCHANGED <<knowledge, serial, now, call, ret, access>>

\* DELETE FROM knowledge WHERE id = $1 (deleteId)
MergeDelete(p) ==
    /\ pc[p] = "merge_delete"
    /\ LET tx == loc[p].tx
           targets == WhereId(TxView(tx), call[p].deleteId)
       IN  /\ ~LockedByOther(p, {r.id : r \in targets})
           /\ loc' = [loc EXCEPT ![p].tx =
                 [locked |-> tx.locked \cup {r.id : r \in targets},
                  rows |-> tx.rows \ targets]]
    /\ pc' = [pc EXCEPT ![p] = "merge_commit"]
    /\ UNCHANGED <<knowledge, serial, now, call, ret, access>>

\* COMMIT: the writes of the transaction become the committed rows
MergeCommit(p) ==
    /\ pc[p] = "merge_commit"
    /\ knowledge' = TxView(loc[p].tx)
    /\ pc' = [pc EXCEPT ![p] = "done"]
    /\ ret' = [ret EXCEPT ![p] = BoolRet(TRUE)]
    /\ loc' = [loc EXCEPT ![p] = NoLoc]
    /\ UNCHANGED <<serial, now, call, access>>

(***************************************************************************)
(* pruneStaleEntries                                                       *)
(***************************************************************************)
DeleteBelow == 1000   \* r.score < 0.1
FlagBelow == 3000     \* score < 0.3

\* SELECT id, topic, source, retention_score(...) AS score FROM knowledge
\*   WHERE memory_type != 'core' AND NOT (tags && ARRAY['protected'])
\* and, around it, WHERE score < 0.3
PruneCandidates(K) ==
    {[id |-> r.id, topic |-> r.topic, source |-> r.source, score |-> RowScore(r)] :
        r \in {x \in K : /\ x.memory_type # "core"
                         /\ "protected" \notin x.tags
                         /\ RowScore(x) < FlagBelow}}

\* Faulty variant of ToDelete: every candidate is taken, the flagged ones too.
ToDeleteAll(candidates) == candidates

ToDelete(candidates) == {c \in candidates : c.score < DeleteBelow}
ToFlag(candidates) ==
    {c \in candidates : c.score >= DeleteBelow /\ c.score < FlagBelow}

PruneRet(toDelete, toFlag) ==
    [kind |-> "prune", deleted |-> toDelete, flagged |-> toFlag]

\* Faulty variant of PruneSelect: the DELETE follows whatever dryRun says.
PruneSelectAlways(p, D) ==
    /\ Free(p)
    /\ \E dryRun \in D.dryRuns :
         LET candidates == PruneCandidates(knowledge)
             toDelete == ToDelete(candidates)
             toFlag == ToFlag(candidates)
         IN  /\ call' = [call EXCEPT ![p] = [op |-> "prune", dryRun |-> dryRun]]
             /\ IF toDelete # {}
                THEN /\ pc' = [pc EXCEPT ![p] = "prune_delete"]
                     /\ loc' = [loc EXCEPT ![p] =
                           [toDelete |-> toDelete, toFlag |-> toFlag]]
                     /\ ret' = [ret EXCEPT ![p] = NoRet]
                ELSE /\ pc' = [pc EXCEPT ![p] = "done"]
                     /\ loc' = [loc EXCEPT ![p] = NoLoc]
                     /\ ret' = [ret EXCEPT ![p] = PruneRet(toDelete, toFlag)]
    /\ UNCHANGED <<knowledge, serial, now, access>>

\* the request arrives and runs the scoring pass
PruneSelect(p, D) ==
    /\ Free(p)
    /\ \E dryRun \in D.dryRuns :
         LET candidates == PruneCandidates(knowledge)
             toDelete == ToDelete(candidates)
             toFlag == ToFlag(candidates)
         IN  /\ call' = [call EXCEPT ![p] = [op |-> "prune", dryRun |-> dryRun]]
             /\ IF ~dryRun /\ toDelete # {}
                THEN /\ pc' = [pc EXCEPT ![p] = "prune_delete"]
                     /\ loc' = [loc EXCEPT ![p] =
                           [toDelete |-> toDelete, toFlag |-> toFlag]]
                     /\ ret' = [ret EXCEPT ![p] = NoRet]
                ELSE /\ pc' = [pc EXCEPT ![p] = "done"]
                     /\ loc' = [loc EXCEPT ![p] = NoLoc]
                     /\ ret' = [ret EXCEPT ![p] = PruneRet(toDelete, toFlag)]
    /\ UNCHANGED <<knowledge, serial, now, access>>

\* Faulty variant of PruneDelete: the DELETE tests again that a row is neither
\* core nor protected.
PruneDeleteUnlessImmune(p) ==
    /\ pc[p] = "prune_delete"
    /\ LET ids == {c.id : c \in loc[p].toDelete} IN
         /\ ~LockedByOther(p, ids)
         /\ knowledge' = knowledge \
               {r \in WhereIdAny(knowledge, ids) :
                   r.memory_type # "core" /\ "protected" \notin r.tags}
    /\ ret' = [ret EXCEPT ![p] = PruneRet(loc[p].toDelete, loc[p].toFlag)]
    /\ pc' = [pc EXCEPT ![p] = "done"]
    /\ loc' = [loc EXCEPT ![p] = NoLoc]
    /\ UNCHANGED <<serial, now, call, access>>

\* DELETE FROM knowledge WHERE id = ANY($1)
PruneDelete(p) ==
    /\ pc[p] = "prune_delete"
    /\ LET ids == {c.id : c \in loc[p].toDelete} IN
         /\ ~LockedByOther(p, ids)
         /\ knowledge' = knowledge \ WhereIdAny(knowledge, ids)
    /\ ret' = [ret EXCEPT ![p] = PruneRet(loc[p].toDelete, loc[p].toFlag)]
    /\ pc' = [pc EXCEPT ![p] = "done"]
    /\ loc' = [loc EXCEPT ![p] = NoLoc]
    /\ UNCHANGED <<serial, now, call, access>>

(***************************************************************************)
(* searchKnowledge and recordAccess                                        *)
(***************************************************************************)
WhiteSpace == {" ", "\t", "\n"}
FallbackSeparators == WhiteSpace \cup {"-", "_", ",", ";", "."}   \* [\s\-_,;.]
Letters ==
    {CharAt(LowerCaseLetters, i) : i \in 1..Len(LowerCaseLetters)}
    \cup {CharAt("0123456789", i) : i \in 1..10}

\* the non-empty maximal runs of characters of s that are not in seps, in order:
\* s.split(<seps>+) without its empty strings
RECURSIVE SplitFrom(_, _, _, _)
SplitFrom(s, seps, i, cur) ==
    IF i > Len(s) THEN (IF cur = "" THEN <<>> ELSE <<cur>>)
    ELSE IF CharAt(s, i) \in seps
         THEN (IF cur = "" THEN <<>> ELSE <<cur>>) \o SplitFrom(s, seps, i + 1, "")
         ELSE SplitFrom(s, seps, i + 1, cur \o CharAt(s, i))

Split(s, seps) == SplitFrom(s, seps, 1, "")

SeqToSet(q) == {q[i] : i \in 1..Len(q)}

\* query.trim().length
TrimLength(s) ==
    LET idx == {i \in 1..Len(s) : CharAt(s, i) \notin WhiteSpace}
    IN  IF idx = {} THEN 0
        ELSE (CHOOSE i \in idx : \A j \in idx : j <= i)
             - (CHOOSE i \in idx : \A j \in idx : i <= j) + 1

\* The lexemes of a text in a tsvector: its words, in lower case.  (The stemming
\* and the stop words of the 'german' configuration are not modelled.)
Lexemes(text) ==
    LET t == toLowerCase(text)
        seps == {CharAt(t, i) : i \in 1..Len(t)} \ Letters
    IN  SeqToSet(Split(t, seps))

IsPrefix(w, lexeme) ==
    Len(w) <= Len(lexeme) /\ SubSeq(lexeme, 1, Len(w)) = w

\* a token w of the query, as w:*, matches a text
PrefixMatches(w, text) ==
    \E lexeme \in Lexemes(text) : IsPrefix(toLowerCase(w), lexeme)

\* search_vector @@ to_tsquery('german', 'w1:* & w2:* ...'): every token is the
\* prefix of a lexeme of the topic, the content or a tag
PrimaryMatch(r, tokens) ==
    \A w \in SeqToSet(tokens) :
        \/ PrefixMatches(w, r.topic)
        \/ PrefixMatches(w, r.content)
        \/ \E t \in r.tags : PrefixMatches(w, t)

\* ts_rank over the weights A (topic), B (content), C (tags) of setweight, in
\* tenths: each token counts with the heaviest field it matches
PrimaryRank(r, tokens) ==
    LET weight(w) ==
            IF PrefixMatches(w, r.topic) THEN 10
            ELSE IF PrefixMatches(w, r.content) THEN 4
            ELSE IF \E t \in r.tags : PrefixMatches(w, t) THEN 2
            ELSE 0
        RECURSIVE Sum(_)
        Sum(i) == IF i > Len(tokens) THEN 0 ELSE weight(tokens[i]) + Sum(i + 1)
    IN  Sum(1)

\* text ILIKE '%w%'
ILike(text, w) == includes(toLowerCase(text), toLowerCase(w))

\* Faulty variant of ILikeMatch: the pattern is tried on the topic only.
ILikeMatchTopicOnly(r, w) == ILike(r.topic, w)

\* k.topic ILIKE '%w%' OR k.content ILIKE '%w%'
ILikeMatch(r, w) == ILike(r.topic, w) \/ ILike(r.content, w)

\* (SELECT COUNT(*) FROM unnest(patterns) WHERE ...) / cardinality(patterns)
FallbackRank(r, words) ==
    (Cardinality({i \in 1..Len(words) : ILikeMatch(r, words[i])}) * Scale)
        \div Len(words)

\* AND source = $n (if (source)), AND tags && $n (if (tags && tags.length > 0));
\* tags is the set of the tags of the filter, empty when the argument is omitted
PassesFilters(r, source, tags) ==
    /\ source \in {NULL, ""} \/ r.source = source
    /\ tags = {} \/ r.tags \cap tags # {}

\* ORDER BY rank DESC LIMIT n: the sequences of at most n of the rows, highest
\* rank first, rows of equal rank in any order; rank[r] is the rank of row r
RECURSIVE OrderDesc(_, _, _)
OrderDesc(rows, rank, n) ==
    IF rows = {} \/ n = 0 THEN {<<>>}
    ELSE LET top == {r \in rows : \A x \in rows : rank[x] <= rank[r]}
         IN  UNION {{<<r>> \o rest : rest \in OrderDesc(rows \ {r}, rank, n - 1)} :
                    r \in top}

\* the same, as the sequences of the ids of the rows
OrderByRankDesc(rows, rank, n) ==
    {[i \in 1..Len(q) |-> q[i].id] : q \in OrderDesc(rows, rank, n)}

SearchLimitCap == 50   \* Math.min(limit, 50)

RowsRet(ids) == [kind |-> "rows", ids |-> ids]

\* recordAccess(ids).catch(() => {}): started, not awaited
StartRecordAccess(ids) ==
    IF ids = <<>> THEN access ELSE access (+) SetToBag({SeqToSet(ids)})

\* the request arrives and runs the full-text query
SearchPrimary(p, D) ==
    /\ Free(p)
    /\ BagCardinality(access) < D.maxPending
    /\ \E query \in D.queries, source \in D.sourceFilters,
          tags \in D.tagFilters, limit \in D.limits :
         LET tokens == Split(query, WhiteSpace)
             matching == {r \in knowledge : /\ PrimaryMatch(r, tokens)
                                           /\ PassesFilters(r, source, tags)}
             rank == [r \in matching |-> PrimaryRank(r, tokens)]
             words == SelectSeq(Split(query, FallbackSeparators),
                                LAMBDA w : Len(w) >= 3)
         IN  /\ call' = [call EXCEPT ![p] =
                   [op |-> "search", query |-> query, source |-> source,
                    tags |-> tags, limit |-> limit]]
             /\ \E ids \in OrderByRankDesc(matching, rank,
                                           Min(limit, SearchLimitCap)) :
                  /\ access' = StartRecordAccess(ids)
                  /\ IF ids = <<>> /\ TrimLength(query) >= 2 /\ words # <<>>
                     THEN /\ pc' = [pc EXCEPT ![p] = "search_fallback"]
                          /\ loc' = [loc EXCEPT ![p] = [words |-> words]]
                          /\ ret' = [ret EXCEPT ![p] = NoRet]
                     ELSE /\ pc' = [pc EXCEPT ![p] = "done"]
                          /\ loc' = [loc EXCEPT ![p] = NoLoc]
                          /\ ret' = [ret EXCEPT ![p] = RowsRet(ids)]
    /\ UNCHANGED <<knowledge, serial, now>>

\* the ILIKE fallback query
SearchFallback(p) ==
    /\ pc[p] = "search_fallback"
    /\ LET words == loc[p].words
           \* WHERE k.topic ILIKE ANY($1) OR k.content ILIKE ANY($1)
           \*   AND k.source = $2 AND k.tags && $3: AND binds before OR
           matching ==
               {r \in knowledge :
                   \/ \E i \in 1..Len(words) : ILike(r.topic, words[i])
                   \/ /\ \E i \in 1..Len(words) : ILike(r.content, words[i])
                      /\ PassesFilters(r, call[p].source, call[p].tags)}
           rank == [r \in matching |-> FallbackRank(r, words)]
       IN  \E ids \in OrderByRankDesc(matching, rank,
                                      Min(call[p].limit, SearchLimitCap)) :
             /\ access' = StartRecordAccess(ids)
             /\ ret' = [ret EXCEPT ![p] = RowsRet(ids)]
    /\ pc' = [pc EXCEPT ![p] = "done"]
    /\ loc' = [loc EXCEPT ![p] = NoLoc]
    /\ UNCHANGED <<knowledge, serial, now, call>>

\* Faulty variant of RecordAccessRow: the time of the access is not written.
RecordAccessRowCountOnly(r) ==
    [r EXCEPT !.access_count = r.access_count + 1]

\* UPDATE knowledge SET access_count = access_count + 1, last_accessed = NOW()
\*   WHERE id = ANY($1)
RecordAccessRow(r) ==
    [r EXCEPT !.access_count = r.access_count + 1, !.last_accessed = now]

\* a started recordAccess runs its UPDATE
RecordAccess ==
    \E ids \in BagToSet(access) :
        /\ \A q \in Procs : TxOf(q).locked \cap ids = {}
        /\ \A r \in WhereIdAny(knowledge, ids) : r.access_count < MaxAccess
        /\ knowledge' =
              {IF r.id \in ids THEN RecordAccessRow(r) ELSE r : r \in knowledge}
        /\ access' = access (-) SetToBag({ids})
        /\ UNCHANGED <<serial, now, pc, call, loc, ret>>

\* Faulty variant of RecordAccessFails: the rejection reaches the searches that
\* have returned, which end with the error.
RecordAccessFailsPropagates ==
    \E ids \in BagToSet(access) :
        /\ access' = access (-) SetToBag({ids})
        /\ ret' = [p \in Procs |->
                     IF call[p].op = "search" /\ pc[p] = "done"
                     THEN ErrorRet("record_access") ELSE ret[p]]
        /\ UNCHANGED <<knowledge, serial, now, pc, call, loc>>

\* a started recordAccess rejects: .catch(() => {}) swallows the error
RecordAccessFails ==
    \E ids \in BagToSet(access) :
        /\ access' = access (-) SetToBag({ids})
        /\ UNCHANGED <<knowledge, serial, now, pc, call, loc, ret>>

(***************************************************************************)
(* The read-only requests: getRecentChanges, listTopics, getHealthReport   *)
(* and findDuplicates.                                                     *)
(***************************************************************************)
HoursPerTick == DaysPerTick * 24

\* WHERE created_at > NOW() - INTERVAL '1 hour' * $1 [AND source = $2]
RecentRows(K, hours, source) ==
    {r \in K : /\ r.created_at * HoursPerTick > now * HoursPerTick - hours
               /\ source \in {NULL, ""} \/ r.source = source}

GetRecentChanges(p, D) ==
    /\ Free(p)
    /\ \E hours \in D.hours, source \in D.sourceFilters, limit \in D.limits :
         LET rows == RecentRows(knowledge, hours, source)
             rank == [r \in rows |-> r.created_at]
         IN
         /\ call' = [call EXCEPT ![p] =
               [op |-> "recent", hours |-> hours, source |-> source,
                limit |-> limit]]
         /\ \E ids \in OrderByRankDesc(rows, rank, Min(limit, SearchLimitCap)) :
              ret' = [ret EXCEPT ![p] = RowsRet(ids)]
    /\ pc' = [pc EXCEPT ![p] = "done"]
    /\ loc' = [loc EXCEPT ![p] = NoLoc]
    /\ UNCHANGED <<knowledge, serial, now, access>>

RECURSIVE SumOfScores(_)
SumOfScores(rows) ==
    IF rows = {} THEN 0
    ELSE LET r == CHOOSE x \in rows : TRUE
         IN  RowScore(r) + SumOfScores(rows \ {r})

MaxOf(S) == CHOOSE m \in S : \A x \in S : x <= m

\* ROUND(AVG(retention_score(...))::numeric, 2), in hundredths
AvgRetention(rows) ==
    (2 * 100 * SumOfScores(rows) + Cardinality(rows) * Scale)
        \div (2 * Cardinality(rows) * Scale)

\* SELECT topic, COUNT(*), MAX(updated_at), array_agg(DISTINCT source),
\*   ROUND(AVG(...), 2) FROM knowledge [WHERE source = $1] GROUP BY topic
TopicGroups(K, source) ==
    LET rows == {r \in K : source \in {NULL, ""} \/ r.source = source}
        of(topic) == {r \in rows : r.topic = topic}
    IN  {[topic |-> t, count |-> Cardinality(of(t)),
          last_updated |-> MaxOf({r.updated_at : r \in of(t)}),
          sources |-> {r.source : r \in of(t)},
          avg_retention |-> AvgRetention(of(t))] : t \in {r.topic : r \in rows}}

ListRet(rows) == [kind |-> "list", rows |-> rows]

ListTopics(p, D) ==
    /\ Free(p)
    /\ \E source \in D.sourceFilters :
         LET groups == TopicGroups(knowledge, source)
             rank == [g \in groups |-> g.last_updated]
         IN  /\ call' = [call EXCEPT ![p] = [op |-> "topics", source |-> source]]
             /\ \E rows \in OrderDesc(groups, rank, Cardinality(groups)) :
                  ret' = [ret EXCEPT ![p] = ListRet(rows)]
    /\ pc' = [pc EXCEPT ![p] = "done"]
    /\ loc' = [loc EXCEPT ![p] = NoLoc]
    /\ UNCHANGED <<knowledge, serial, now, access>>

\* the seven queries of getHealthReport, in the order of the array
HealthQueries ==
    <<"total", "by_type", "by_source", "score_distribution", "never_accessed",
      "top_accessed", "stale_candidates">>

HealthListCap == 10   \* LIMIT 10

ScoreBucket(score) ==
    IF score >= 7000 THEN "healthy"
    ELSE IF score >= FlagBelow THEN "aging"
    ELSE IF score >= DeleteBelow THEN "stale"
    ELSE "decay"

\* SELECT <column>, COUNT(*) FROM knowledge GROUP BY <column>; column[r] is the
\* value of the column in row r
CountBy(K, column) ==
    {[key |-> k, count |-> Cardinality({r \in K : column[r] = k})] :
        k \in {column[r] : r \in K}}

\* the results one of the queries may return on the rows K
HealthQuery(name, K) ==
    LET by_type == CountBy(K, [r \in K |-> r.memory_type])
        by_source == CountBy(K, [r \in K |-> r.source])
        buckets == CountBy(K, [r \in K |-> ScoreBucket(RowScore(r))])
        \* ORDER BY MIN(score) DESC: the buckets, best first
        bucketRank(g) ==
            CASE g.key = "healthy" -> 3 [] g.key = "aging" -> 2
              [] g.key = "stale" -> 1 [] OTHER -> 0
        never == {r \in K : r.access_count = 0}
        stale == PruneCandidates(K)
    IN  CASE name = "total" -> {Cardinality(K)}
          [] name = "by_type" ->
                OrderDesc(by_type, [g \in by_type |-> g.count],
                          Cardinality(by_type))
          [] name = "by_source" ->
                OrderDesc(by_source, [g \in by_source |-> g.count],
                          Cardinality(by_source))
          [] name = "score_distribution" ->
                OrderDesc(buckets, [g \in buckets |-> bucketRank(g)],
                          Cardinality(buckets))
          [] name = "never_accessed" ->
                OrderByRankDesc(never, [r \in never |-> 0 - r.created_at],
                                HealthListCap)
          [] name = "top_accessed" ->
                OrderByRankDesc(K, [r \in K |-> r.access_count], HealthListCap)
          [] name = "stale_candidates" ->
                OrderByRankDesc(stale, [c \in stale |-> 0 - c.score],
                                HealthListCap)

HealthRet(report) == [kind |-> "health", report |-> report]

\* the request arrives: Promise.all starts the seven queries
GetHealthReport(p) ==
    /\ Free(p)
    /\ call' = [call EXCEPT ![p] = [op |-> "health"]]
    /\ loc' = [loc EXCEPT ![p] = [report |-> <<>>]]
    /\ pc' = [pc EXCEPT ![p] = "health_query"]
    /\ ret' = [ret EXCEPT ![p] = NoRet]
    /\ UNCHANGED <<knowledge, serial, now, access>>

\* the next of the queries runs; after the last one the report is returned
HealthStep(p) ==
    /\ pc[p] = "health_query"
    /\ LET i == Len(loc[p].report) + 1 IN
         \E res \in HealthQuery(HealthQueries[i], knowledge) :
            LET report == Append(loc[p].report, res) IN
            IF i < Len(HealthQueries)
            THEN /\ loc' = [loc EXCEPT ![p] = [report |-> report]]
                 /\ UNCHANGED <<pc, ret>>
            ELSE /\ loc' = [loc EXCEPT ![p] = NoLoc]
                 /\ pc' = [pc EXCEPT ![p] = "done"]
                 /\ ret' = [ret EXCEPT ![p] = HealthRet(report)]
    /\ UNCHANGED <<knowledge, serial, now, call, access>>

\* pg_trgm: the trigrams of a text are those of its words, in lower case, each
\* with two blanks before it and one after it
Trigrams(text) ==
    LET t == toLowerCase(text)
        seps == {CharAt(t, i) : i \in 1..Len(t)} \ Letters
        padded(w) == "  " \o w \o " "
    IN  UNION {{SubSeq(padded(w), i, i + 2) : i \in 1..(Len(w) + 1)} :
                  w \in SeqToSet(Split(t, seps))}

\* similarity(a, b) as the fraction shared / all of the trigrams of both
SimilarityParts(a, b) ==
    [shared |-> Cardinality(Trigrams(a) \cap Trigrams(b)),
     all |-> Cardinality(Trigrams(a) \cup Trigrams(b))]

\* ROUND(similarity(...)::numeric, 3), in thousandths
RoundedSimilarity(a, b) ==
    LET s == SimilarityParts(a, b)
    IN  IF s.all = 0 THEN 0 ELSE (2 * 1000 * s.shared + s.all) \div (2 * s.all)

DuplicateText(r) == r.topic \o " " \o r.content

\* the join taken as a.id <> b.id: every pair twice, once in each order
DuplicatePairsUnordered(K, threshold) ==
    {[id_a |-> a.id, topic_a |-> a.topic, id_b |-> b.id, topic_b |-> b.topic,
      similarity |-> RoundedSimilarity(DuplicateText(a), DuplicateText(b))] :
        <<a, b>> \in {x \in K \X K :
            /\ x[1].id # x[2].id
            /\ LET s == SimilarityParts(DuplicateText(x[1]), DuplicateText(x[2]))
               IN  s.all # 0 /\ 1000 * s.shared > threshold * s.all}}

\* ... FROM knowledge a JOIN knowledge b ON a.id < b.id
\*     WHERE similarity(...) > $1, the threshold in thousandths
DuplicatePairs(K, threshold) ==
    {[id_a |-> a.id, topic_a |-> a.topic, id_b |-> b.id, topic_b |-> b.topic,
      similarity |-> RoundedSimilarity(DuplicateText(a), DuplicateText(b))] :
        <<a, b>> \in {x \in K \X K :
            /\ x[1].id < x[2].id
            /\ LET s == SimilarityParts(DuplicateText(x[1]), DuplicateText(x[2]))
               IN  s.all # 0 /\ 1000 * s.shared > threshold * s.all}}

FindDuplicatesCap == 50   \* LIMIT 50

FindDuplicates(p, D) ==
    /\ Free(p)
    /\ \E threshold \in D.thresholds :
         LET pairs == DuplicatePairs(knowledge, threshold)
             rank == [d \in pairs |-> d.similarity]
         IN
         /\ call' = [call EXCEPT ![p] = [op |-> "duplicates", threshold |-> threshold]]
         /\ \E rows \in OrderDesc(pairs, rank, FindDuplicatesCap) :
              ret' = [ret EXCEPT ![p] = ListRet(rows)]
    /\ pc' = [pc EXCEPT ![p] = "done"]
    /\ loc' = [loc EXCEPT ![p] = NoLoc]
    /\ UNCHANGED <<knowledge, serial, now, access>>

(***************************************************************************)
(* main: the HTTP server listens at once; initDbWithRetry then attempts     *)
(* initDb up to MaxRetries times, with a delay after each failure; when it  *)
(* has returned or thrown, main registers the tools and the routes.  The    *)
(* locals of main (attempt of initDbWithRetry, dbReady, and whether the     *)
(* error of the last attempt was thrown) are loc["main"].                   *)
(***************************************************************************)
MaxRetries == 5   \* initDbWithRetry(maxRetries = 5, delayMs = 3000)

Main == "main"
attempt == loc[Main].attempt
dbReady == loc[Main].dbReady

\* app.all("/mcp", ...) and the REST routes are registered after the await of
\* initDbWithRetry; until then express answers 404 on their paths
RoutesRegistered == pc[Main] = "serving"

\* await initDb() resolves: initDbWithRetry returns, dbReady = true, and main
\* goes on to register the tools and the routes
InitDbSucceeds ==
    /\ pc[Main] = "init_db"
    /\ pc' = [pc EXCEPT ![Main] = "serving"]
    /\ loc' = [loc EXCEPT ![Main].dbReady = TRUE]
    /\ UNCHANGED <<knowledge, serial, now, call, ret, access>>

\* Faulty variant of InitDbFails: every failed attempt is followed by another.
InitDbFailsRetryAlways ==
    /\ pc[Main] = "init_db"
    /\ pc' = [pc EXCEPT ![Main] = "retry_delay"]
    /\ UNCHANGED <<knowledge, serial, now, call, loc, ret, access>>

\* await initDb() rejects: if (attempt < maxRetries) the delay follows,
\* otherwise the error is thrown; main catches it, logs it and goes on
InitDbFails ==
    /\ pc[Main] = "init_db"
    /\ IF attempt < MaxRetries
       THEN /\ pc' = [pc EXCEPT ![Main] = "retry_delay"]
            /\ loc' = loc
       ELSE /\ pc' = [pc EXCEPT ![Main] = "serving"]
            /\ loc' = [loc EXCEPT ![Main].error = TRUE]
    /\ UNCHANGED <<knowledge, serial, now, call, ret, access>>

\* await new Promise(r => setTimeout(r, delayMs)); attempt++
RetryDelay ==
    /\ pc[Main] = "retry_delay"
    /\ pc' = [pc EXCEPT ![Main] = "init_db"]
    /\ loc' = [loc EXCEPT ![Main].attempt = attempt + 1]
    /\ UNCHANGED <<knowledge, serial, now, call, ret, access>>

\* a request that is answered with a status and without a statement being run
Answer(p, op, status) ==
    /\ call' = [call EXCEPT ![p] = [op |-> op]]
    /\ ret' = [ret EXCEPT ![p] = RejectedRet(status)]
    /\ pc' = [pc EXCEPT ![p] = "done"]
    /\ loc' = [loc EXCEPT ![p] = NoLoc]
    /\ UNCHANGED <<knowledge, serial, now, access>>

\* a request to /mcp: no route yet, or if (!dbReady) 503, or the tool called
McpRequest(p, D) ==
    \/ /\ Free(p) /\ ~RoutesRegistered
       /\ Answer(p, "mcp", "404")
    \/ /\ Free(p) /\ RoutesRegistered /\ ~dbReady
       /\ Answer(p, "mcp", "503")
    \/ /\ RoutesRegistered /\ dbReady
       /\ \/ SaveKnowledgeTool(p, D)
          \/ DeleteKnowledge(p, D)
          \/ MergeSelectKeep(p, D)

\* POST /api/prune: no route yet, or pruneStaleEntries(dryRun)
ApiPrune(p, D) ==
    \/ /\ Free(p) /\ ~RoutesRegistered
       /\ Answer(p, "prune", "404")
    \/ /\ RoutesRegistered
       /\ PruneSelect(p, D)

(***************************************************************************)
(* A statement throws (the store fails, the connection is lost): the       *)
(* request ends with the error and runs no further statement.  In a merge  *)
(* the catch block rolls the transaction back.                             *)
(***************************************************************************)
Fail(p) ==
    /\ ~Free(p)
    /\ pc' = [pc EXCEPT ![p] = "done"]
    /\ ret' = [ret EXCEPT ![p] = ErrorRet(pc[p])]
    /\ loc' = [loc EXCEPT ![p] = NoLoc]
    /\ UNCHANGED <<knowledge, serial, now, call, access>>

(***************************************************************************)
(* The clock: a tick is DaysPerTick days, so it passes between requests.   *)
(***************************************************************************)
Tick(D) ==
    /\ now < D.maxNow
    /\ \A p \in Procs : Free(p)
    /\ now' = now + 1
    /\ UNCHANGED <<knowledge, serial, pc, call, loc, ret, access>>

(***************************************************************************)
(* The specifications.                                                     *)
(***************************************************************************)
Init ==
    /\ knowledge = {}
    /\ serial = 0
    /\ now = 0
    /\ pc = [p \in Procs |-> "idle"]
    /\ call = [p \in Procs |-> NoCall]
    /\ loc = [p \in Procs |-> NoLoc]
    /\ ret = [p \in Procs |-> NoRet]
    /\ access = EmptyBag

SaveSteps(p, D) == SaveSelect(p, D) \/ SaveUpdate(p) \/ SaveInsert(p, D)

MergeSteps(p, D) ==
    \/ MergeSelectKeep(p, D)
    \/ MergeSelectDel(p)
    \/ MergeRollback(p)
    \/ MergeUpdate(p)
    \/ MergeDelete(p)
    \/ MergeCommit(p)

PruneSteps(p, D) == PruneSelect(p, D) \/ PruneDelete(p)

\* Requests run one after the other: saves, merges, deletes and pruning sweeps
\* over four natural keys.
SeqScope ==
    [maxId |-> SeqMaxId, maxNow |-> MaxNow,
     topics |-> Topics, sources |-> Sources, contents |-> Contents,
     metas |-> {SaveDefaults, Meta({}, 2000, "cpg", "decision")},
     mergedContents |-> {NULL, "beta"},
     dryRuns |-> {FALSE}]

SeqNext ==
    \/ SaveSteps("p1", SeqScope)
    \/ MergeSteps("p1", SeqScope)
    \/ DeleteKnowledge("p1", SeqScope)
    \/ PruneSteps("p1", SeqScope)
    \/ Tick(SeqScope)

SeqSpec == Init /\ [][SeqNext]_vars

\* Requests run concurrently, one SQL statement at a time.
Scope ==
    [maxId |-> MaxId, maxNow |-> MaxNow,
     topics |-> Topics, sources |-> {"website"}, contents |-> Contents,
     metas |-> {Meta({}, 2000, "cpg", "decision")},
     mergedContents |-> {"gamma"},
     dryRuns |-> BOOLEAN]

Step(p) ==
    \/ SaveSteps(p, Scope)
    \/ MergeSteps(p, Scope)
    \/ PruneSteps(p, Scope)
    \/ DeleteKnowledge(p, Scope)
    \/ Fail(p)

Next == (\E p \in Procs : Step(p)) \/ Tick(Scope)

Spec == Init /\ [][Next]_vars

SearchSteps(p, D) == SearchPrimary(p, D) \/ SearchFallback(p)

\* Requests run one after the other: saves, searches (with their access
\* recording), merges and deletes over two natural keys.
MergeScope ==
    [maxId |-> MaxId, maxNow |-> 0, maxPending |-> MaxPending,
     topics |-> Topics, sources |-> {"website"}, contents |-> Contents,
     metas |-> {SaveDefaults, Meta({"protected"}, 2000, "cpg", "decision"),
                Meta({"core"}, 2000, "cpg", NULL)},
     mergedContents |-> {NULL, "beta"},
     queries |-> {"alp", "ricing"}, sourceFilters |-> {NULL},
     tagFilters |-> {{}}, limits |-> {10},
     dryRuns |-> {}]

MergeNext ==
    \/ SaveSteps("p1", MergeScope)
    \/ SearchSteps("p1", MergeScope)
    \/ MergeSteps("p1", MergeScope)
    \/ DeleteKnowledge("p1", MergeScope)
    \/ RecordAccess
    \/ RecordAccessFails
    \/ Fail("p1")

MergeSpec == Init /\ [][MergeNext]_vars

\* Requests run one after the other while the clock advances: saves, deletes
\* and pruning sweeps over entries of every kind of retention.
SweepScope ==
    [maxId |-> MaxId, maxNow |-> SweepMaxNow,
     topics |-> Topics, sources |-> Sources, contents |-> {"alpha"},
     metas |-> {SaveDefaults, Meta({}, 2000, "cpg", "decision"),
                Meta({"protected"}, 2000, "cpg", "decision"),
                Meta({"core"}, 2000, "cpg", NULL)},
     dryRuns |-> BOOLEAN]

SweepNext ==
    \/ SaveSteps("p1", SweepScope)
    \/ PruneSteps("p1", SweepScope)
    \/ DeleteKnowledge("p1", SweepScope)
    \/ Fail("p1")
    \/ Tick(SweepScope)

SweepSpec == Init /\ [][SweepNext]_vars

\* Requests of every kind run one after the other.
FrameScope ==
    [maxId |-> MaxId, maxNow |-> MaxNow, maxPending |-> MaxPending,
     topics |-> Topics, sources |-> {"website"}, contents |-> Contents,
     metas |-> {Meta({}, 2000, "cpg", "decision")},
     mergedContents |-> {NULL},
     queries |-> {"alp", "pri-zzz"}, sourceFilters |-> {NULL},
     tagFilters |-> {{}}, limits |-> {10},
     hours |-> {48}, thresholds |-> {300, 600},
     dryRuns |-> BOOLEAN]

FrameNext ==
    \/ SaveSteps("p1", FrameScope)
    \/ SearchSteps("p1", FrameScope)
    \/ MergeSteps("p1", FrameScope)
    \/ PruneSteps("p1", FrameScope)
    \/ DeleteKnowledge("p1", FrameScope)
    \/ GetRecentChanges("p1", FrameScope)
    \/ ListTopics("p1", FrameScope)
    \/ GetHealthReport("p1")
    \/ HealthStep("p1")
    \/ FindDuplicates("p1", FrameScope)
    \/ RecordAccess
    \/ RecordAccessFails
    \/ Fail("p1")
    \/ Tick(FrameScope)

FrameSpec == Init /\ [][FrameNext]_vars

\* Two saves at a time, one SQL statement at a time.
RaceScope ==
    [maxId |-> MaxId, maxNow |-> 0,
     topics |-> Topics, sources |-> {"website"}, contents |-> Contents,
     metas |-> {SaveDefaults, Meta({"protected"}, 2000, "cpg", "decision")}]

RaceNext == \E p \in Procs : SaveSteps(p, RaceScope)

RaceSpec == Init /\ [][RaceNext]_vars

\* Saves, one after the other while the clock advances, of topics and tags of
\* every class, in either case, with and without an explicit memory type.
ClassifyTopics ==
    {"stripe-config", "PRICING-rules", "My-API-Key", "why-Decision",
     "api-key-pricing", "decision-on-invoice-pdf"}

ClassifyTags ==
    {{}, {"Core"}, {"architecture"}, {"Decision"}, {"core-team"},
     {"decision", "ARCHITECTURE"}}

ClassifyScope ==
    [maxId |-> ClassifyMaxId, maxNow |-> MaxNow,
     topics |-> ClassifyTopics, sources |-> {"website"}, contents |-> {"alpha"},
     metas |-> {Meta(tags, Scale, "cpg", type) :
                   tags \in ClassifyTags, type \in {NULL, "pattern", "core"}}]

ClassifyNext == SaveSteps("p1", ClassifyScope) \/ Tick(ClassifyScope)

ClassifySpec == Init /\ [][ClassifyNext]_vars

\* The scorer over one entry of every confidence, access history, memory type,
\* protection and age: the entry is in the store from the start, the clock
\* advances, and the dry pruning sweep, the topic list and the health report
\* score it.
ScoreConfidences == {0, 2000, 9000, 9500, Scale}
ScoreAccessCounts == {0, 1, 49, 200}
ScoreTags == {{}, {"protected"}, {"core"}, {"protected", "core"}}

ScoreInit ==
    /\ \E confidence \in ScoreConfidences, access_count \in ScoreAccessCounts,
          last_accessed \in {NullTime, 0}, memory_type \in MemoryTypes,
          tags \in ScoreTags :
          knowledge =
             {[id |-> 1, topic |-> "pricing", content |-> "alpha",
               source |-> "website", user_id |-> "cpg", tags |-> tags,
               confidence |-> confidence, access_count |-> access_count,
               last_accessed |-> last_accessed, memory_type |-> memory_type,
               created_at |-> 0, updated_at |-> 0]}
    /\ serial = 1
    /\ now = 0
    /\ pc = [p \in Procs |-> "idle"]
    /\ call = [p \in Procs |-> NoCall]
    /\ loc = [p \in Procs |-> NoLoc]
    /\ ret = [p \in Procs |-> NoRet]
    /\ access = EmptyBag

ScoreScope ==
    [maxId |-> 1, maxNow |-> ScoreMaxNow, sourceFilters |-> {NULL},
     dryRuns |-> {TRUE}]

ScoreNext ==
    \/ PruneSelect("p1", ScoreScope)
    \/ ListTopics("p1", ScoreScope)
    \/ GetHealthReport("p1")
    \/ HealthStep("p1")
    \/ Tick(ScoreScope)

ScoreSpec == ScoreInit /\ [][ScoreNext]_vars

\* Searches, one after the other, with and without filters, over entries of two
\* sources and two contents: queries the full-text tier answers,
\* queries only the substring tier answers, and queries neither answers.
SearchScope ==
    [maxId |-> MaxId, maxNow |-> 0, maxPending |-> MaxPending,
     topics |-> Topics, sources |-> Sources, contents |-> Contents,
     metas |-> {Meta({"billing"}, Scale, "cpg", NULL)},
     queries |-> {"alp", "lph", "ricing lph", "zz", " z"},
     sourceFilters |-> {NULL, "stripe"}, tagFilters |-> {{}, {"refund"}},
     limits |-> {10}]

SearchNext ==
    \/ SaveSteps("p1", SearchScope)
    \/ SearchSteps("p1", SearchScope)
    \/ RecordAccess
    \/ RecordAccessFails

SearchSpec == Init /\ [][SearchNext]_vars

\* Duplicate detection over entries of two topics that differ in punctuation
\* only: their texts are identical, near-identical (similarity 14/17 = 0.824)
\* or apart (11/18 = 0.611, 11/19 = 0.579), and the thresholds are the
\* default 0.6, 0.611 and 0.9.
DupScope ==
    [maxId |-> MaxId,
     topics |-> {"pricing-v2", "pricing v2"}, sources |-> {"website"},
     contents |-> {"plan", "plans", "vat"},
     metas |-> {SaveDefaults},
     thresholds |-> {600, 611, 900}]

DupNext ==
    \/ SaveSteps("p1", DupScope)
    \/ FindDuplicates("p1", DupScope)
    \/ FindDuplicates("p2", DupScope)

DupSpec == Init /\ [][DupNext]_vars

\* Saves through both entry points, with inputs inside and outside the
\* constraints of the data model: an empty topic, an empty content, a source
\* outside the enum, eleven tags, a confidence of 1.5 and a memory type
\* outside the four classes.
ElevenTags == {"t01", "t02", "t03", "t04", "t05", "t06", "t07", "t08", "t09", "t10", "t11"}

EntryScope ==
    [maxId |-> MaxId,
     topics |-> {"pricing", ""},
     sources |-> {"website", "fax"},
     contents |-> {"alpha", ""},
     metas |-> {SaveDefaults,
                Meta(ElevenTags, Scale, "unknown", NULL),
                Meta({}, (3 * Scale) \div 2, "unknown", NULL),
                Meta({}, Scale, "unknown", "episodic")}]

EntryNext ==
    \/ SaveKnowledgeTool("p1", EntryScope)
    \/ ApiSave("p1", EntryScope)
    \/ SaveUpdate("p1")
    \/ SaveInsert("p1", EntryScope)
    \/ Fail("p1")

EntrySpec == Init /\ [][EntryNext]_vars

\* Merges of entries saved within the constraints of the data model: two tag
\* sets of six and seven tags that share two (eleven together), and a merged
\* content that is omitted, given, or given as the empty string.
SixTags == {"t01", "t02", "t03", "t04", "t05", "t06"}
SevenTags == {"t05", "t06", "t07", "t08", "t09", "t10", "t11"}

KeptScope ==
    [maxId |-> MaxId,
     topics |-> Topics, sources |-> {"website"}, contents |-> Contents,
     metas |-> {Meta(SixTags, Scale, "unknown", NULL),
                Meta(SevenTags, Scale, "unknown", NULL)},
     mergedContents |-> {NULL, "gamma", ""}]

KeptNext ==
    \/ SaveSteps("p1", KeptScope)
    \/ MergeSteps("p1", KeptScope)
    \/ Fail("p1")

KeptSpec == Init /\ [][KeptNext]_vars

\* A prune that deletes, and saves that run at the same time: a save can
\* create an entry, or make a stored entry protected or core or raise its
\* confidence, between the two passes of the prune.
PruneRaceScope ==
    [maxId |-> MaxId, maxNow |-> SweepMaxNow,
     topics |-> Topics, sources |-> {"website"}, contents |-> Contents,
     metas |-> {Meta({}, 2000, "cpg", "decision"),
                Meta({"protected"}, 2000, "cpg", "decision"),
                Meta({}, 2000, "cpg", "core"),
                Meta({}, Scale, "cpg", "decision")},
     dryRuns |-> {FALSE}]

PruneRaceNext ==
    \/ PruneSteps("p1", PruneRaceScope)
    \/ SaveSteps("p2", PruneRaceScope)
    \/ Tick(PruneRaceScope)

PruneRaceSpec == Init /\ [][PruneRaceNext]_vars

\* The start of the server and the requests that arrive meanwhile and
\* afterwards.  The table outlives the server: it holds an entry of an earlier
\* run, old enough for a prune to delete it.
StartupNow == 2

StartupInit ==
    /\ now = StartupNow
    /\ knowledge =
          {[SaveInsertRow(1, [topic |-> "pricing", content |-> "beta",
                              source |-> "website", tags |-> {},
                              confidence |-> 2000, userId |-> "cpg"],
                          "decision")
            EXCEPT !.created_at = 0, !.updated_at = 0]}
    /\ serial = 1
    /\ pc = [p \in Procs \cup {Main} |-> IF p = Main THEN "init_db" ELSE "idle"]
    /\ call = [p \in Procs \cup {Main} |-> NoCall]
    /\ loc = [p \in Procs \cup {Main} |->
                IF p = Main
                THEN [attempt |-> 1, dbReady |-> FALSE, error |-> FALSE]
                ELSE NoLoc]
    /\ ret = [p \in Procs \cup {Main} |-> NoRet]
    /\ access = EmptyBag

StartupScope ==
    [maxId |-> MaxId,
     topics |-> Topics, sources |-> {"website", "fax"}, contents |-> {"alpha"},
     metas |-> {Meta({}, 2000, "cpg", "decision"), Meta({}, Scale, "cpg", "decision")},
     mergedContents |-> {NULL},
     dryRuns |-> BOOLEAN]

StartupNext ==
    \/ InitDbSucceeds
    \/ InitDbFails
    \/ RetryDelay
    \/ McpRequest("p1", StartupScope)
    \/ ApiPrune("p1", StartupScope)
    \/ SaveUpdate("p1")
    \/ SaveInsert("p1", StartupScope)
    \/ MergeSelectDel("p1")
    \/ MergeRollback("p1")
    \/ MergeUpdate("p1")
    \/ MergeDelete("p1")
    \/ MergeCommit("p1")
    \/ PruneDelete("p1")
    \/ Fail("p1")

StartupSpec == StartupInit /\ [][StartupNext]_vars

(***************************************************************************)
(* The properties.                                                         *)
(***************************************************************************)
MergePcs ==
    {"merge_select_del", "merge_rollback", "merge_update", "merge_delete",
     "merge_commit"}

SameNaturalKey(a, b) ==
    a.topic = b.topic /\ a.source = b.source /\ a.content = b.content

\* C1: a save that directly follows a save of the same (topic, source, content)
\* finds the entry the first save returned (so it returns the same id and
\* inserts nothing), and a save that updates leaves the number of entries as it
\* was and the entry it returns with the tags, confidence and userId of the call.
C1_SaveTwiceSameEntry ==
    [][\A p \in Procs :
        /\ (/\ pc[p] = "done" /\ call[p].op = "save" /\ ret[p].kind = "id"
            /\ pc'[p] \in {"save_update", "save_insert"}
            /\ SameNaturalKey(call'[p], call[p]))
           => loc'[p].existing = {ret[p].id}
        /\ (pc[p] = "save_update" /\ pc'[p] = "done" /\ ret'[p].kind = "id")
           => /\ Cardinality(knowledge') = Cardinality(knowledge)
              /\ \E r \in WhereId(knowledge', ret'[p].id) :
                    /\ r.tags = call[p].tags
                    /\ r.confidence = call[p].confidence
                    /\ r.user_id = call[p].userId
      ]_vars

\* C2: when two concurrent saves of the same (topic, source, content) have both
\* returned, they returned the same id and exactly one entry has that key.
C2_ConcurrentSavesOneEntry ==
    \A p, q \in Procs :
        (/\ p # q
         /\ pc[p] = "done" /\ call[p].op = "save" /\ ret[p].kind = "id"
         /\ pc[q] = "done" /\ call[q].op = "save" /\ ret[q].kind = "id"
         /\ SameNaturalKey(call[p], call[q]))
        => /\ ret[p].id = ret[q].id
           /\ Cardinality(SaveMatches(knowledge, call[p].topic, call[p].source,
                                      call[p].content)) = 1

\* C3: the commit of a merge of two distinct entries leaves the entry of keepId
\* with the union of the tags, the sum of the access counts and the maximum of
\* the confidences of the two entries the merge read, with mergedContent as its
\* content if one was given and its previous content otherwise, and leaves no
\* entry of deleteId.
C3_MergeCombines ==
    [][\A p \in Procs :
        (/\ pc[p] = "merge_commit" /\ pc'[p] = "done" /\ ret'[p] = BoolRet(TRUE)
         /\ call[p].keepId # call[p].deleteId)
        => \E keep \in loc[p].keep, del \in loc[p].del :
             /\ WhereId(knowledge', call[p].deleteId) = {}
             /\ \E k \in WhereId(knowledge', call[p].keepId) :
                  /\ k.tags = keep.tags \cup del.tags
                  /\ k.access_count = keep.access_count + del.access_count
                  /\ k.confidence = Max(keep.confidence, del.confidence)
                  /\ k.content = IF call[p].mergedContent # NULL
                                 THEN call[p].mergedContent ELSE keep.content
      ]_vars

\* a merge has returned true, and its entry of keepId carries tags and an access
\* count that only the combination of two entries gives
C3_Witness ==
    \E p \in Procs :
        /\ pc[p] = "done" /\ call[p].op = "merge" /\ ret[p] = BoolRet(TRUE)
        /\ call[p].keepId # call[p].deleteId
        /\ call[p].mergedContent = "beta"
        /\ WhereId(knowledge, call[p].deleteId) = {}
        /\ \E k \in WhereId(knowledge, call[p].keepId) :
             /\ k.tags = {"core", "protected"}
             /\ k.access_count = 2
             /\ k.content = "beta"

\* C4: while keepId or deleteId names no entry, no step of the merge changes the
\* store, the merge goes on to nothing but its rollback, and it ends, unless a
\* statement of it fails, by returning false.
C4_MergeMissingId ==
    [][\A p \in Procs :
        (/\ call[p].op = "merge" /\ pc[p] \in MergePcs /\ pc'[p] # pc[p]
         /\ \/ WhereId(knowledge, call[p].keepId) = {}
            \/ WhereId(knowledge, call[p].deleteId) = {})
        => /\ knowledge' = knowledge
           /\ ret'[p].kind # "error"
              => /\ pc'[p] \in {"merge_rollback", "done"}
                 /\ pc'[p] = "done" => ret'[p] = BoolRet(FALSE)
      ]_vars

\* a merge has returned false: one of its ids names an entry, the other none
C4_Witness ==
    \E p \in Procs :
        /\ pc[p] = "done" /\ call[p].op = "merge" /\ ret[p] = BoolRet(FALSE)
        /\ WhereId(knowledge, call[p].keepId) # {}
        /\ WhereId(knowledge, call[p].deleteId) = {}

\* C5: a step of a merge changes the committed rows only if it is the commit,
\* and the commit changes them all at once: no entry of deleteId is left, every
\* entry of keepId carries the combined values, and the other entries are as
\* they were.  Every other step, a failing one included, leaves every entry as
\* it was.
C5_MergeAtomic ==
    [][\A p \in Procs :
        (call[p].op = "merge" /\ pc[p] \in MergePcs /\ pc'[p] # pc[p])
        => IF pc[p] = "merge_commit" /\ ret'[p] = BoolRet(TRUE)
           THEN \E keep \in loc[p].keep, del \in loc[p].del :
                  /\ WhereId(knowledge', call[p].deleteId) = {}
                  /\ \A k \in WhereId(knowledge', call[p].keepId) :
                       /\ k.tags = keep.tags \cup del.tags
                       /\ k.access_count = keep.access_count + del.access_count
                       /\ k.confidence = Max(keep.confidence, del.confidence)
                       /\ k.content = IF call[p].mergedContent # NULL
                                      THEN call[p].mergedContent
                                      ELSE keep.content
                  /\ \A r \in knowledge :
                       r.id \notin {call[p].keepId, call[p].deleteId}
                       => r \in knowledge'
                  /\ {r.id : r \in knowledge'} \subseteq {r.id : r \in knowledge}
           ELSE knowledge' = knowledge
      ]_vars

\* a merge of two distinct entries failed at its COMMIT, after its UPDATE and its
\* DELETE had run, and both entries are in the store with their own content
C5_Witness ==
    \E p \in Procs :
        /\ pc[p] = "done" /\ call[p].op = "merge"
        /\ ret[p] = ErrorRet("merge_commit")
        /\ call[p].keepId # call[p].deleteId
        /\ \E k \in WhereId(knowledge, call[p].keepId),
              d \in WhereId(knowledge, call[p].deleteId) :
                k.content \in Contents /\ d.content \in Contents

\* the entries pruning may take: neither of type core nor tagged protected
Prunable(r) == r.memory_type # "core" /\ "protected" \notin r.tags

\* what pruning reports of a set of rows
Reported(rows) ==
    {[id |-> r.id, topic |-> r.topic, source |-> r.source, score |-> RowScore(r)] :
        r \in rows}

\* C6: a prune with dryRun = true ends in its one step, leaves the store as it
\* was and returns as deleted the prunable entries of score below 0.1 and as
\* flagged those of score from 0.1 to below 0.3; a prune with dryRun = false
\* computes the same two lists from the same store.
C6_DryRunPrune ==
    [][\A p \in Procs :
        LET below == {r \in knowledge : Prunable(r) /\ RowScore(r) < DeleteBelow}
            flagged == {r \in knowledge : /\ Prunable(r)
                                          /\ RowScore(r) >= DeleteBelow
                                          /\ RowScore(r) < FlagBelow}
            lists == [kind |-> "prune", deleted |-> Reported(below),
                      flagged |-> Reported(flagged)]
        IN  /\ (Free(p) /\ call'[p].op = "prune" /\ now' = now)
               => IF call'[p].dryRun
                  THEN /\ knowledge' = knowledge
                       /\ pc'[p] = "done"
                       /\ ret'[p] = lists
                  ELSE IF pc'[p] = "done"
                  THEN ret'[p] = lists
                  ELSE /\ loc'[p].toDelete = lists.deleted
                       /\ loc'[p].toFlag = lists.flagged
            /\ (call[p].op = "prune" /\ call[p].dryRun /\ pc'[p] # pc[p])
               => knowledge' = knowledge
      ]_vars

\* a prune with dryRun = true has returned an entry as deleted and another as
\* flagged, and both are in the store
C6_Witness ==
    \E p \in Procs :
        /\ pc[p] = "done" /\ call[p].op = "prune" /\ call[p].dryRun
        /\ ret[p].kind = "prune"
        /\ ret[p].deleted # {} /\ ret[p].flagged # {}
        /\ \A c \in ret[p].deleted \cup ret[p].flagged :
              WhereId(knowledge, c.id) # {}

\* C7: with requests run one at a time, the DELETE of a prune with dryRun = false
\* removes the prunable entries of score below 0.1 and no other entry, and the
\* prune returns them as deleted and the prunable entries of score from 0.1 to
\* below 0.3, which stay, as flagged; a prune with dryRun = false that runs no
\* DELETE found no such entry to remove.  No entry of type core or tagged
\* protected is removed or returned.
C7_PruneRemovesExactly ==
    [][\A p \in Procs :
        LET below == {r \in knowledge : Prunable(r) /\ RowScore(r) < DeleteBelow}
            flagged == {r \in knowledge : /\ Prunable(r)
                                          /\ RowScore(r) >= DeleteBelow
                                          /\ RowScore(r) < FlagBelow}
            immune == {r.id : r \in {x \in knowledge : ~Prunable(x)}}
        IN  /\ (/\ call[p].op = "prune" /\ ~call[p].dryRun
                /\ pc[p] = "prune_delete" /\ pc'[p] = "done"
                /\ ret'[p].kind = "prune")
               => /\ knowledge' = knowledge \ below
                  /\ ret'[p].deleted = Reported(below)
                  /\ ret'[p].flagged = Reported(flagged)
                  /\ flagged \subseteq knowledge'
                  /\ \A c \in ret'[p].deleted \cup ret'[p].flagged :
                        c.id \notin immune
            /\ (/\ Free(p) /\ call'[p].op = "prune" /\ ~call'[p].dryRun
                /\ now' = now /\ pc'[p] = "done")
               => /\ below = {}
                  /\ knowledge' = knowledge
                  /\ ret'[p].deleted = {}
                  /\ ret'[p].flagged = Reported(flagged)
      ]_vars

\* a prune with dryRun = false has returned: the entry it returns as deleted is
\* gone, the entry it returns as flagged is in the store
C7_Witness ==
    \E p \in Procs :
        /\ pc[p] = "done" /\ call[p].op = "prune" /\ ~call[p].dryRun
        /\ ret[p].kind = "prune"
        /\ ret[p].deleted # {} /\ ret[p].flagged # {}
        /\ \A c \in ret[p].deleted : WhereId(knowledge, c.id) = {}
        /\ \A c \in ret[p].flagged : WhereId(knowledge, c.id) # {}

\* C8: the id of an entry leaves the store only in a step of deleteKnowledge on
\* that id, in the commit of a merge with that id as deleteId, or in the DELETE
\* of a prune with dryRun = false.
C8_RemovedOnlyByThreePaths ==
    [][\A id \in {r.id : r \in knowledge} \ {r.id : r \in knowledge'} :
        \E p \in Procs :
            \/ /\ Free(p) /\ pc'[p] = "done"
               /\ call'[p] = [op |-> "delete", id |-> id]
               /\ ret'[p] = BoolRet(TRUE)
            \/ /\ call[p].op = "merge" /\ pc[p] = "merge_commit"
               /\ ret'[p] = BoolRet(TRUE) /\ call[p].deleteId = id
            \/ /\ call[p].op = "prune" /\ ~call[p].dryRun
               /\ pc[p] = "prune_delete" /\ pc'[p] = "done"
               /\ id \in {c.id : c \in ret'[p].deleted}
      ]_vars

\* an entry has been read by a search that recorded its access, and a dry-run
\* prune that returns it as deleted has run since: it is in the store
C8_Witness ==
    \E p \in Procs :
        /\ pc[p] = "done" /\ call[p].op = "prune" /\ call[p].dryRun
        /\ ret[p].kind = "prune"
        /\ \E c \in ret[p].deleted :
             \E r \in WhereId(knowledge, c.id) : r.access_count > 0

\* C9: with requests run one at a time, no two distinct entries of the store
\* have the same (topic, source, content).
C9_NaturalKeyUnique ==
    \A r1, r2 \in knowledge : SameNaturalKey(r1, r2) => r1 = r2

\* C10: no two rows share an id and no id is beyond the value of the sequence;
\* the id of a row that enters the store is greater than every id handed out
\* before; the sequence never steps back; a row that stays keeps, under its id,
\* the topic, source and creation time it was inserted with.
C10_IdsUniqueIncreasing ==
    /\ [](/\ \A r1, r2 \in knowledge : r1.id = r2.id => r1 = r2
          /\ \A r \in knowledge : r.id \in 1..serial)
    /\ [][/\ serial' >= serial
          /\ \A r \in knowledge' :
               IF WhereId(knowledge, r.id) = {}
               THEN r.id > serial /\ r.id = serial'
               ELSE \A o \in WhereId(knowledge, r.id) :
                       /\ o.topic = r.topic /\ o.source = r.source
                       /\ o.created_at = r.created_at
         ]_vars

\* the entry of the first id was removed by a delete, a merge or a prune and a
\* save inserted the entry of the last id: the first id is free, not handed out
\* again, and the entry in the store has the greatest id
C10_Witness ==
    /\ serial = MaxId
    /\ {r.id : r \in knowledge} = {MaxId}
    /\ \E p \in Procs :
         /\ pc[p] = "done" /\ call[p].op \in {"delete", "merge", "prune"}
         /\ \E q \in Procs \ {p} :
              /\ pc[q] = "done" /\ call[q].op = "save" /\ ret[q] = IdRet(MaxId)

C12_AccessCountNeverDecreases ==
    /\ [](\A r \in knowledge : r.access_count >= 0)
    /\ [][\A r \in knowledge : \A r2 \in WhereId(knowledge', r.id) :
             r2.access_count >= r.access_count
         ]_vars

\* C13: every step that changes a stored field of an entry of the store leaves
\* that entry with updated_at equal to the current time.
C13_UpdatedAtAdvances ==
    [][\A r \in knowledge : \A r2 \in WhereId(knowledge', r.id) :
          r2 # r => r2.updated_at = now'
      ]_vars

\* a save has written a row and returned its id
SaveStored(p) ==
    /\ call[p].op = "save" /\ pc[p] \in {"save_insert", "save_update"}
    /\ pc'[p] = "done" /\ ret'[p].kind = "id"

\* the topic, in lower case, contains one of the words
TopicContains(topic, words) ==
    \E k \in words : includes(toLowerCase(topic), k)

\* one of the tags, in lower case, is the word
TagsContain(tags, word) == \E tag \in tags : toLowerCase(tag) = word

\* C14: a save without an explicit memory type stores one of the four types,
\* fixed by the topic and the tags of the call through four rules of which the
\* first that matches wins, letter case apart: core if the topic contains a
\* core keyword or the tags contain core; else architecture if the topic
\* contains an architecture keyword or the tags contain architecture; else
\* decision if the tags or the topic contain decision; else pattern.  So a core
\* tag wins over an architecture topic and an architecture topic over a
\* decision tag.
C14_ClassifyOrderedRules ==
    [][\A p \in Procs :
        (SaveStored(p) /\ call[p].memoryType = NULL)
        => LET topic == call[p].topic
               tags == call[p].tags
               core ==
                   \/ TopicContains(topic, {"agent-rules", "sheet-ids", "api-key",
                                            "credentials", "deployment-id"})
                   \/ TagsContain(tags, "core")
               architecture ==
                   \/ TopicContains(topic, {"cms-api", "gas-webhook", "pricing",
                                            "stripe-api", "infrastructure",
                                            "architecture", "invoice-pdf"})
                   \/ TagsContain(tags, "architecture")
               decision ==
                   TagsContain(tags, "decision") \/ TopicContains(topic, {"decision"})
           IN  \E r \in WhereId(knowledge', ret'[p].id) :
                 /\ r.memory_type \in MemoryTypes
                 /\ r.memory_type = "core" <=> core
                 /\ r.memory_type = "architecture" <=> (~core /\ architecture)
                 /\ r.memory_type = "decision"
                       <=> (~core /\ ~architecture /\ decision)
                 /\ r.memory_type = "pattern"
                       <=> (~core /\ ~architecture /\ ~decision)
                 /\ (TagsContain(tags, "core")
                     /\ TopicContains(topic, {"pricing"}))
                    => r.memory_type = "core"
                 /\ (TopicContains(topic, {"pricing"})
                     /\ ~TopicContains(topic, {"api-key"})
                     /\ tags = {"Decision"})
                    => r.memory_type = "architecture"
      ]_vars

\* a save without an explicit memory type, of an architecture topic in upper
\* case with the tag Core, has stored an entry of type core
C14_Witness ==
    \E p \in Procs :
        /\ pc[p] = "done" /\ call[p].op = "save" /\ ret[p].kind = "id"
        /\ call[p].memoryType = NULL
        /\ call[p].topic = "PRICING-rules" /\ call[p].tags = {"Core"}
        /\ \E r \in WhereId(knowledge, ret[p].id) :
             /\ r.topic = "PRICING-rules" /\ r.tags = {"Core"}
             /\ r.memory_type = "core"

\* C15: every save that writes a row, by INSERT or by UPDATE, leaves the row
\* with the explicit memory type of the call if it has one, and with
\* classifyMemoryType(topic, tags) of the call if it has none.
C15_ExplicitTypeStored ==
    [][\A p \in Procs :
        SaveStored(p)
        => \E r \in WhereId(knowledge', ret'[p].id) :
             r.memory_type =
                IF call[p].memoryType # NULL THEN call[p].memoryType
                ELSE classifyMemoryType(call[p].topic, call[p].tags)
      ]_vars

\* a save with the explicit type pattern has updated an entry of a core topic:
\* the entry is of type pattern, which the classifier would not return
C15_Witness ==
    \E p \in Procs :
        /\ pc[p] = "done" /\ call[p].op = "save" /\ ret[p].kind = "id"
        /\ call[p].memoryType = "pattern"
        /\ classifyMemoryType(call[p].topic, call[p].tags) = "core"
        /\ \E r \in WhereId(knowledge, ret[p].id) :
             /\ r.memory_type = "pattern"
             /\ r.updated_at > r.created_at

\* C16: every entry whose tags contain protected scores exactly 1.0, whatever
\* its memory type, confidence, access count, last access and age.
C16_ProtectedScoresOne ==
    \A r \in knowledge : "protected" \in r.tags => RowScore(r) = Scale

\* the topic list has reported the retention 1.00 for the topic of one entry:
\* protected, of type decision, of confidence 0, never accessed, 600 days old
C16_Witness ==
    \E p \in Procs :
        /\ pc[p] = "done" /\ call[p].op = "topics" /\ ret[p].kind = "list"
        /\ now = ScoreMaxNow
        /\ \E r \in knowledge :
             /\ "protected" \in r.tags /\ r.memory_type = "decision"
             /\ r.confidence = 0 /\ r.access_count = 0
             /\ r.last_accessed = NullTime /\ r.created_at = 0
        /\ \A i \in 1..Len(ret[p].rows) : ret[p].rows[i].avg_retention = 100

\* C17, as worded: every entry of type core scores max(confidence, 0.9),
\* whatever its tags.
C17_CoreScore ==
    \A r \in knowledge :
        r.memory_type = "core"
        => RowScore(r) = Max(r.confidence, (9 * Scale) \div 10)

\* C17, amended: every entry of type core whose tags do not contain protected
\* scores max(confidence, 0.9), whatever its other tags, access history and age.
C17_UnprotectedCoreScore ==
    \A r \in knowledge :
        (r.memory_type = "core" /\ "protected" \notin r.tags)
        => RowScore(r) = Max(r.confidence, (9 * Scale) \div 10)

\* the topic list has reported the retention 0.90 for the topic of one entry:
\* of type core, not protected, of confidence 0.2, never accessed, 600 days old
C17_Witness ==
    \E p \in Procs :
        /\ pc[p] = "done" /\ call[p].op = "topics" /\ ret[p].kind = "list"
        /\ now = ScoreMaxNow
        /\ \E r \in knowledge :
             /\ r.memory_type = "core" /\ "protected" \notin r.tags
             /\ r.confidence = 2000 /\ r.access_count = 0
             /\ r.last_accessed = NullTime
        /\ \A i \in 1..Len(ret[p].rows) : ret[p].rows[i].avg_retention = 90

\* C18: the score of every entry is at least 0 and at most 1.0, and so is every
\* score the pruning sweep reports.
C18_ScoreInUnitInterval ==
    /\ \A r \in knowledge : RowScore(r) >= 0 /\ RowScore(r) <= Scale
    /\ \A p \in Procs :
          ret[p].kind = "prune"
          => \A c \in ret[p].deleted \cup ret[p].flagged :
                c.score >= 0 /\ c.score <= Scale

\* the dry pruning sweep has reported an entry with the score 0: of confidence 0,
\* never accessed, older than 180 days
C18_Witness ==
    \E p \in Procs :
        /\ pc[p] = "done" /\ call[p].op = "prune" /\ ret[p].kind = "prune"
        /\ \E c \in ret[p].deleted : c.score = 0
        /\ \E r \in knowledge : r.confidence = 0 /\ r.access_count = 0

\* the rows of the ids of a sequence, in its order
RowsOf(K, ids) == [i \in 1..Len(ids) |-> CHOOSE r \in K : r.id = ids[i]]

\* the tokens of a query the substring tier uses: split at white space and
\* - _ , ; . and at least 3 characters long
LongTokens(query) ==
    SelectSeq(Split(query, FallbackSeparators), LAMBDA w : Len(w) >= 3)

\* how many of the tokens a row matches in its topic or its content
TokensMatched(r, tokens) ==
    Cardinality({i \in 1..Len(tokens) :
                    ILike(r.topic, tokens[i]) \/ ILike(r.content, tokens[i])})

\* a search request arrives and runs its full-text query: the store is as it
\* was and no started access recording has ended
SearchArrives(p) ==
    /\ Free(p) /\ call'[p].op = "search"
    /\ knowledge' = knowledge
    /\ BagCardinality(access') >= BagCardinality(access)

\* a search request ends, after its full-text or its substring query
SearchReturns(p) ==
    \/ SearchArrives(p) /\ pc'[p] = "done"
    \/ pc[p] = "search_fallback" /\ pc'[p] = "done"

\* C19: a search whose full-text tier finds entries returns entries of that
\* tier and does not go on to the substring tier; a search whose full-text tier
\* finds none goes on to the substring query if and only if the query has at
\* least 2 characters and a token of at least 3 characters, and returns no entry
\* otherwise; the substring query returns only entries that match at least one
\* of those tokens in topic or content, an entry that matches more of them
\* never after one that matches fewer.
C19_FallbackSearch ==
    [][\A p \in Procs :
        /\ SearchArrives(p)
           => LET query == call'[p].query
                  tokens == Split(query, WhiteSpace)
                  hits == {r \in knowledge :
                             /\ PrimaryMatch(r, tokens)
                             /\ PassesFilters(r, call'[p].source, call'[p].tags)}
              IN  IF hits # {}
                  THEN /\ pc'[p] = "done" /\ ret'[p].kind = "rows"
                       /\ ret'[p].ids # <<>>
                       /\ SeqToSet(ret'[p].ids) \subseteq {r.id : r \in hits}
                  ELSE IF Len(query) >= 2 /\ LongTokens(query) # <<>>
                  THEN pc'[p] = "search_fallback"
                  ELSE pc'[p] = "done" /\ ret'[p] = RowsRet(<<>>)
        /\ (pc[p] = "search_fallback" /\ pc'[p] = "done" /\ ret'[p].kind = "rows")
           => LET tokens == LongTokens(call[p].query)
                  rows == RowsOf(knowledge, ret'[p].ids)
              IN  /\ \A i \in 1..Len(rows) : TokensMatched(rows[i], tokens) >= 1
                  /\ \A i, j \in 1..Len(rows) :
                        i < j => TokensMatched(rows[i], tokens)
                                 >= TokensMatched(rows[j], tokens)
      ]_vars

\* the substring tier has answered a query of two tokens with two entries: the
\* first matches both tokens, the second one of them
C19_Witness ==
    \E p \in Procs :
        /\ pc[p] = "done" /\ call[p].op = "search" /\ ret[p].kind = "rows"
        /\ call[p].query = "ricing lph"
        /\ Len(ret[p].ids) = 2
        /\ LET rows == RowsOf(knowledge, ret[p].ids)
           IN  /\ TokensMatched(rows[1], LongTokens(call[p].query)) = 2
               /\ TokensMatched(rows[2], LongTokens(call[p].query)) = 1

\* C20: every entry a search returns, from either tier, has the source of the
\* source filter if one is given and one of the tags of the tag filter if one
\* is given.
C20_FiltersConjunctive ==
    [][\A p \in Procs :
        (SearchReturns(p) /\ ret'[p].kind = "rows")
        => \A r \in WhereIdAny(knowledge, SeqToSet(ret'[p].ids)) :
              /\ call'[p].source # NULL => r.source = call'[p].source
              /\ call'[p].tags # {} => r.tags \cap call'[p].tags # {}
      ]_vars

\* a started access recording ends: its UPDATE runs, or it rejects
RecordingEnds == BagCardinality(access') < BagCardinality(access)

\* C21: a search that returns entries starts one access recording, for the set
\* of the entries it returns, and a search that returns none, and the full-text
\* query of a search that goes on to the substring query, start none; a
\* recording that ends changes no entry outside its set, and either changes
\* none (it failed) or leaves every entry of its set that is in the store with
\* access_count one higher, last_accessed at the current time and its other
\* fields as they were.
C21_AccessRecordedOncePerResult ==
    [][/\ \A p \in Procs :
            /\ (SearchReturns(p) /\ ret'[p].kind = "rows")
               => access' = IF ret'[p].ids = <<>> THEN access
                            ELSE access (+) SetToBag({SeqToSet(ret'[p].ids)})
            /\ (SearchArrives(p) /\ pc'[p] = "search_fallback")
               => access' = access
       /\ RecordingEnds
          => \E ids \in BagToSet(access) :
               /\ access' = access (-) SetToBag({ids})
               /\ {r.id : r \in knowledge'} = {r.id : r \in knowledge}
               /\ \A r \in knowledge : r.id \notin ids => r \in knowledge'
               /\ \/ knowledge' = knowledge
                  \/ \A r \in WhereIdAny(knowledge, ids) :
                        [r EXCEPT !.access_count = r.access_count + 1,
                                  !.last_accessed = now] \in knowledge'
      ]_vars

\* a search has returned one of two entries and its recording has run: the
\* entry it returned has been accessed once, now, the other never
C21_Witness ==
    \E p \in Procs :
        /\ pc[p] = "done" /\ call[p].op = "search" /\ ret[p].kind = "rows"
        /\ Len(ret[p].ids) = 1 /\ access = EmptyBag
        /\ Cardinality(knowledge) = 2
        /\ \A r \in knowledge :
              IF r.id \in SeqToSet(ret[p].ids)
              THEN r.access_count = 1 /\ r.last_accessed = now
              ELSE r.access_count = 0 /\ r.last_accessed = NullTime

\* C22: a search returns its entries in the step that starts its access
\* recording, while the recording is still to run, and the end of a recording,
\* whether its UPDATE runs or it rejects, leaves what every request has
\* returned, and where every request stands, as it was.
C22_RecordingFireAndForget ==
    [][/\ \A p \in Procs :
            (SearchReturns(p) /\ ret'[p].kind = "rows" /\ ret'[p].ids # <<>>)
            => /\ pc'[p] = "done"
               /\ BagIn(SeqToSet(ret'[p].ids), access')
               /\ \A r \in WhereIdAny(knowledge, SeqToSet(ret'[p].ids)) :
                     r \in knowledge'
       /\ RecordingEnds => (ret' = ret /\ pc' = pc /\ call' = call)
      ]_vars

\* a search has returned an entry and its recording has failed: the search
\* still has its result, and the entry has never been accessed
C22_Witness ==
    \E p \in Procs :
        /\ pc[p] = "done" /\ call[p].op = "search" /\ ret[p].kind = "rows"
        /\ ret[p].ids # <<>> /\ access = EmptyBag
        /\ \A r \in WhereIdAny(knowledge, SeqToSet(ret[p].ids)) :
              r.access_count = 0 /\ r.last_accessed = NullTime
        /\ WhereIdAny(knowledge, SeqToSet(ret[p].ids)) # {}

\* findDuplicates of request p returns
DuplicatesReturn(p) ==
    /\ Free(p)
    /\ call'[p].op = "duplicates"
    /\ pc'[p] = "done"
    /\ <<call'[p], ret'[p]>> # <<call[p], ret[p]>>

\* the similarity of entries a and b is above the threshold (in thousandths)
SimilarityAbove(a, b, threshold) ==
    LET s == SimilarityParts(DuplicateText(a), DuplicateText(b))
    IN  s.all # 0 /\ 1000 * s.shared > threshold * s.all

WithinConstraints(r) ==
    /\ Len(r.topic) >= 1 /\ Len(r.topic) <= MaxTopicLength
    /\ Len(r.content) >= 1 /\ Len(r.content) <= MaxContentLength
    /\ r.source \in VALID_SOURCES
    /\ r.confidence >= 0 /\ r.confidence <= Scale
    /\ Cardinality(r.tags) <= MaxTags
    /\ r.memory_type \in MemoryTypes

\* C24 as worded: whatever entry point a save came through, every stored entry
\* has a topic of 1..100 characters, a content of 1..2000 characters, a source
\* of the known enum, a confidence in [0, 1], at most 10 tags and a memory type
\* of the four classes.
C24_StoredEntriesWithinConstraints ==
    \A r \in knowledge : WithinConstraints(r)

\* the merge of request p commits and reports success
MergeSucceeds(p) ==
    /\ pc[p] = "merge_commit"
    /\ pc'[p] = "done"
    /\ ret'[p] = BoolRet(TRUE)

\* C25 as worded: after a merge that reports success the entry with id keepId
\* is in the store and the store holds exactly one entry fewer than before,
\* also when keepId = deleteId.
C25_MergeKeepsOneRemovesOne ==
    [][\A p \in Procs :
          MergeSucceeds(p)
          => /\ WhereId(knowledge', call[p].keepId) # {}
             /\ Cardinality(knowledge') = Cardinality(knowledge) - 1
      ]_vars

\* C26 as worded: a successful merge leaves the kept entry with a non-empty
\* content, also when mergedContent is the empty string, and with at most 10
\* tags, also when the two tag sets together hold more than 10.
C26_MergeKeepsConstraints ==
    [][\A p \in Procs :
          MergeSucceeds(p)
          => \A r \in WhereId(knowledge', call[p].keepId) :
                /\ Len(r.content) >= 1
                /\ Cardinality(r.tags) <= MaxTags
      ]_vars

\* the ids that the scoring pass of the prune of request p selected for deletion
SelectedIds(p) == {c.id : c \in loc[p].toDelete}

\* C27: the scoring pass of a prune selects entries of the store by id; until
\* the delete pass runs, other requests change and create entries freely, the
\* selection stays as it is and no entry created meanwhile is in it; the delete
\* pass removes exactly the entries whose id was selected, whatever they have
\* become, and returns the lists of the scoring pass.
C27_PruneDeletesById ==
    [][\A p \in Procs :
          /\ (Free(p) /\ pc'[p] = "prune_delete")
             => /\ {c.id : c \in loc'[p].toDelete} \subseteq {r.id : r \in knowledge}
                /\ knowledge' = knowledge
          /\ (pc[p] = "prune_delete" /\ pc'[p] = "prune_delete")
             => /\ loc'[p] = loc[p]
                /\ \A r \in knowledge' :
                      r.id \notin {x.id : x \in knowledge} => r.id \notin SelectedIds(p)
          /\ (pc[p] = "prune_delete" /\ pc'[p] = "done")
             => /\ knowledge' = {r \in knowledge : r.id \notin SelectedIds(p)}
                /\ ret'[p] = PruneRet(loc[p].toDelete, loc[p].toFlag)
      ]_vars

\* a prune has deleted entry 1, which a save made protected after the scoring
\* pass had selected it (the last save of the only saving request returned id
\* 1 for protected tags, and a protected entry is never selected)
C27_Witness ==
    /\ pc["p1"] = "done" /\ ret["p1"].kind = "prune"
    /\ {c.id : c \in ret["p1"].deleted} = {1}
    /\ pc["p2"] = "done" /\ call["p2"].op = "save"
    /\ "protected" \in call["p2"].tags
    /\ ret["p2"] = IdRet(1)
    /\ WhereId(knowledge, 1) = {}

\* C28 as worded: a health report whose sub-queries are under way ends with a
\* report (the results of the sub-queries that did not fail), also when one of
\* its sub-queries fails.
C28_HealthReportSurvivesFailure ==
    [][\A p \in Procs :
          (pc[p] = "health_query" /\ pc'[p] = "done")
          => ret'[p].kind = "health"
      ]_vars

\* a request to /mcp is answered without its tool being called
McpAnswered(p) ==
    /\ Free(p)
    /\ call'[p].op = "mcp"
    /\ <<call'[p], ret'[p]>> # <<call[p], ret[p]>>

\* the place of a statement in the request that runs it
StatementRank(at) ==
    CASE at \in {"idle", "done"} -> 0
      [] at \in {"save_update", "save_insert", "merge_select_del",
                 "prune_delete", "search_fallback", "health_query"} -> 1
      [] at \in {"merge_rollback", "merge_update"} -> 2
      [] at = "merge_delete" -> 3
      [] at = "merge_commit" -> 4

\* C29 as worded, for the MCP endpoint: a request to /mcp that arrives while
\* dbReady is false is answered 503.
C29_McpAnswers503UnlessReady ==
    [][\A p \in Procs :
          (McpAnswered(p) /\ ~dbReady) => ret'[p] = RejectedRet("503")
      ]_vars

\* C29: initDb is attempted at most MaxRetries times, a further attempt
\* follows only a failed one and none follows a success; dbReady becomes true
\* only when an attempt succeeds and then stays true; when the last attempt
\* fails the error is thrown, dbReady stays false and the server goes on to
\* serve; a request to /mcp that arrives while dbReady is false is answered
\* 404 until the routes are registered and 503 from then on, and no tool
\* reaches the store while dbReady is false; a request never returns to a
\* statement it has run or failed at, a failed request ends with its error,
\* and the store changes only in a step of a request.
C29_BoundedInitRetries ==
    [][/\ attempt' >= 1 /\ attempt' <= MaxRetries
       /\ attempt' # attempt
          => (attempt' = attempt + 1 /\ pc[Main] = "retry_delay" /\ ~dbReady)
       /\ dbReady => (dbReady' /\ pc'[Main] = "serving" /\ attempt' = attempt)
       /\ (dbReady' /\ ~dbReady) => pc[Main] = "init_db"
       /\ (pc[Main] = "init_db" /\ pc'[Main] # "init_db" /\ ~dbReady')
          => IF attempt < MaxRetries
             THEN pc'[Main] = "retry_delay" /\ ~loc'[Main].error
             ELSE pc'[Main] = "serving" /\ loc'[Main].error
       /\ loc[Main].error
          => (loc'[Main] = loc[Main] /\ ~dbReady /\ pc'[Main] = "serving")
       /\ \A p \in Procs :
             /\ (McpAnswered(p) /\ ~dbReady)
                => ret'[p] = RejectedRet(IF RoutesRegistered THEN "503" ELSE "404")
             /\ (Free(p) /\ call'[p] # call[p]
                   /\ call'[p].op \in {"save", "merge", "delete"})
                => dbReady
             /\ ~Free(p)
                => /\ pc'[p] = pc[p] \/ pc'[p] = "done"
                      \/ StatementRank(pc'[p]) > StatementRank(pc[p])
                   /\ call'[p] = call[p]
                   /\ ret'[p].kind = "error" => pc'[p] = "done"
       /\ knowledge' # knowledge
          => \E p \in Procs : call'[p] # call[p] \/ pc'[p] # pc[p]
      ]_vars

\* all five attempts have failed: the error was thrown, the server serves with
\* dbReady false, and a request to /mcp has been answered 503
C29_Witness ==
    /\ pc[Main] = "serving" /\ ~dbReady /\ loc[Main].error
    /\ attempt = MaxRetries
    /\ \E p \in Procs :
          call[p].op = "mcp" /\ ret[p] = RejectedRet("503")

====
